---- MODULE Spec2Model ----
(***************************************************************************)
(* State-machine model of the GRI client (src/Python).                     *)
(*                                                                         *)
(*   Spec      the transport session of gri_comms.py: socket_connect,      *)
(*             socket_disconnect and socket_send_receive, driven by an     *)
(*             arbitrary single-threaded caller, against a server that     *)
(*             answers whole requests in order, in segments, and may       *)
(*             close the stream at any time.                               *)
(*   SpecWait  the job poller wait_for_job of gri_comms.py with the        *)
(*             status query get_job_status it is built on.                 *)
(*                                                                         *)
(* Time is counted in clock ticks.  A byte of the reply stream is named by *)
(* its position on the connection: the server's reply to the k-th whole    *)
(* request written on a connection is the bytes                            *)
(* RESPONSE_LENGTH*(k-1) .. RESPONSE_LENGTH*k - 1 of that stream.          *)
(***************************************************************************)
EXTENDS Integers, Sequences, FiniteSets, TLC

\* ---------------------------------------------------------------- constants

\* gri_protocol.py
REQUEST_LENGTH == 54
RESPONSE_LENGTH == 80

\* Python's None for _client_socket; socket objects are numbered from 1.
None == 0

\* ------------------------------------------------------------------- bounds

\* cfg.SERVER_TIMEOUT, in clock ticks.
SERVER_TIMEOUT == 1
\* Bytes written on one connection are capped at MaxRequests whole requests.
MaxRequests == 2
\* Socket objects created in one run.
MaxSockets == 2
\* The server writes a reply in segments of at most Segment bytes.
Segment == 30

Min(a, b) == IF a < b THEN a ELSE b
Max(a, b) == IF a > b THEN a ELSE b

\* ---------------------------------------------------------------- variables

VARIABLES
    _is_connected,    \* gri_comms._is_connected
    _client_socket,   \* gri_comms._client_socket: None or a socket object
    nsock,            \* socket objects connected so far
    link,             \* the TCP connection behind _client_socket
    pc,               \* where the caller is: "idle", "loop" (line 233), "recv" (line 239)
    request,          \* socket_send_receive: sequence number of the request written by this call
    response_bytes,   \* socket_send_receive: the bytes accumulated, as [first, len]
    recv_elapsed,     \* time.monotonic() - start_recv_time
    blocked,          \* how long the current recv call has been blocked
    ret,              \* what the last call returned, "none" while a call is running
    prev              \* what the call before it returned

tvars == <<_is_connected, _client_socket, nsock, link, pc, request,
           response_bytes, recv_elapsed, blocked, ret, prev>>

\* wait_for_job and the status query under it.
VARIABLES
    wpc,              \* where wait_for_job is: "entry", "top" (line 603), "sleep" (620),
                      \* "after_sleep" (622), "query" (636), "status" (638), "done"
    delay_s,          \* argument
    timeout_s,        \* argument
    now,              \* time.monotonic()
    start_time,       \* line 597
    wait_time,        \* the duration handed to time.sleep
    response,         \* get_job_status: what _send_action returned
    status,           \* line 636
    nqueries,         \* status queries started by this call
    result            \* what wait_for_job returned

wvars == <<wpc, delay_s, timeout_s, now, start_time, wait_time, response, status,
           nqueries, result>>

\* One call of a gri_client function: the exchange under it and what it hands
\* back.
VARIABLES
    call,             \* the gri_client function called last, and its arguments
    sent,             \* the request _send_action built, and whether it was written
    received,         \* how socket_send_receive ended, and the bytes it had read
    report,           \* the result object handed to the caller
    before            \* the call before this one: whether there was one, and
                      \* whether its response failed to decode

fvars == <<call, sent, received, report, before>>

\* The Pose objects of one encoding: the caller's, and the copy _send_action
\* makes.
VARIABLES
    objects,          \* the fields of each Pose object, by object
    original,         \* the fields the caller gave its pose
    holder,           \* the object the RequestMessage encoded last refers to
    packed,           \* the seven integers packed into the request
    encoded           \* what the caller called last: "to_bytes", "_send_action"

cvars == <<objects, original, holder, packed, encoded>>

\* One call of a function of the codec that touches no object: to_bytes of a
\* request, from_bytes of a payload, the scaling of a value.
VARIABLES
    applied,          \* the function called, "none" before the call
    input,            \* its argument
    output            \* what it returned or raised

pvars == <<applied, input, output>>

\* perform_example_hand_eye_calibration of example_hec.py, called once.
VARIABLES
    hpc,              \* the call it makes next: "get_status" (line 46), "hec_init" (49),
                      \* "hec_set_pose" (84), "hec_calibrate" (94), or "returned"
    pipeline_id,      \* argument
    slot_id,          \* the slot of the loop of line 79
    hec_log,          \* the HEC calls made so far: the request, whether it was
                      \* written, whether the result was acknowledged
    calibration_successful   \* what it returned

hvars == <<hpc, pipeline_id, slot_id, hec_log, calibration_successful>>

\* ------------------------------------------------------------- the stream

\* A connection: bytes the client wrote (out), whole requests among them
\* (reqs), reply bytes the server wrote (srv), reply bytes the client has
\* consumed (rd), and whether the peer has closed its side.
ClosedLink ==
    [open |-> FALSE, out |-> 0, reqs |-> 0, srv |-> 0, rd |-> 0, peer_closed |-> FALSE]

FreshLink == [ClosedLink EXCEPT !.open = TRUE]

\* Reply bytes written by the server and not yet consumed by recv.
Available == link.srv - link.rd

\* The server's reply to the k-th whole request of a connection.
ReplyTo(k) == [first |-> RESPONSE_LENGTH * (k - 1), len |-> RESPONSE_LENGTH]

NoBytes == [first |-> 0, len |-> 0]

\* A return value of one call.  ok: connect's bool, or "bytes were returned".
Returned(fn, ok, bytes, err) == [fn |-> fn, ok |-> ok, bytes |-> bytes, err |-> err]

NoReturn == Returned("none", FALSE, NoBytes, "none")

\* A partial write of sendall before it times out: nothing, or half a request.
PartialWrites == {0, REQUEST_LENGTH \div 2}

\* What _send_action returns: None, or the decoded response.  Of a response
\* the callers modelled here read error_code and data_fields.
NoResponse == [present |-> FALSE, error_code |-> 0, data_fields |-> [i \in 0..9 |-> 0]]

\* No status query has returned yet.
NoStatus == -1

\* ---------------------------------------------------------- socket_connect

\* Lines 80-99: a new socket is created and connected.
ConnectOpens ==
    /\ nsock < MaxSockets
    /\ nsock' = nsock + 1
    /\ _client_socket' = nsock + 1
    /\ link' = FreshLink
    /\ _is_connected' = TRUE
    /\ ret' = Returned("socket_connect", TRUE, NoBytes, "none")

\* Fault variant of ConnectAlready: a connect on a connected session opens a
\* new stream in place of the old one.
ConnectAlreadyReopens == ConnectOpens

\* Lines 74-76: already connected.
ConnectAlready ==
    /\ ret' = Returned("socket_connect", TRUE, NoBytes, "none")
    /\ UNCHANGED <<_is_connected, _client_socket, nsock, link>>

\* Fault variant of ConnectFails: the socket created at line 80 is left in
\* _client_socket when connecting fails.
ConnectFailsKeepsSocket(e) ==
    /\ nsock < MaxSockets
    /\ ret' = Returned("socket_connect", FALSE, NoBytes, e)
    /\ nsock' = nsock + 1
    /\ _client_socket' = nsock + 1
    /\ _is_connected' = FALSE
    /\ link' = ClosedLink

\* Lines 100-114: connecting timed out, was refused or failed otherwise (e).
ConnectFails(e) ==
    /\ ret' = Returned("socket_connect", FALSE, NoBytes, e)
    /\ _client_socket' = None
    /\ _is_connected' = FALSE
    /\ link' = ClosedLink
    /\ UNCHANGED nsock

socket_connect ==
    /\ pc = "idle"
    /\ \/ /\ _is_connected
          /\ ConnectAlready
       \/ /\ ~_is_connected
          /\ ConnectOpens
       \/ /\ ~_is_connected
          /\ \E e \in {"timeout", "socket_error"} : ConnectFails(e)
    /\ prev' = ret
    /\ UNCHANGED <<pc, request, response_bytes, recv_elapsed, blocked>>
    /\ UNCHANGED <<wvars, fvars, cvars, pvars, hvars>>

\* ------------------------------------------------------- socket_disconnect

\* What closing a socket may raise (and socket_disconnect swallows): nothing,
\* socket.error in shutdown (line 123), socket.error in close (line 129).
CloseErrors == {"none", "shutdown_error", "close_error"}

\* Fault variant of Closing: the state is cleared only when close did not
\* raise (no finally clause).
ClosingUnlessCloseRaised(e) ==
    IF e = "close_error"
    THEN UNCHANGED <<_client_socket, _is_connected, link>>
    ELSE /\ _client_socket' = None
         /\ _is_connected' = FALSE
         /\ link' = ClosedLink

\* Fault variant of Closing: the socket is dropped and the flag is left set.
ClosingKeepsFlag(e) ==
    /\ _client_socket' = None
    /\ link' = ClosedLink
    /\ UNCHANGED _is_connected

\* Lines 121-135: shutdown, close, and the finally clause, e being what was
\* raised on the way.
Closing(e) ==
    /\ _client_socket' = None
    /\ _is_connected' = FALSE
    /\ link' = ClosedLink

\* The effect of socket_disconnect() on the session, wherever it is called,
\* e being what closing the socket raises.
socket_disconnect(e) ==
    IF _is_connected /\ _client_socket # None
    THEN Closing(e)
    ELSE UNCHANGED <<_client_socket, _is_connected, link>>

CallDisconnect ==
    /\ pc = "idle"
    /\ \E e \in CloseErrors :
          /\ socket_disconnect(e)
          /\ ret' = Returned("socket_disconnect", FALSE, NoBytes,
                             IF _is_connected /\ _client_socket # None THEN e ELSE "none")
    /\ prev' = ret
    /\ UNCHANGED <<nsock, pc, request, response_bytes, recv_elapsed, blocked>>
    /\ UNCHANGED <<wvars, fvars, cvars, pvars, hvars>>

\* ----------------------------------------------------- socket_send_receive

\* Lines 203-206: the guard of an exchange.
NotConnected == ~_is_connected \/ _client_socket = None

\* Fault variant of SendNotConnected: the exchange reconnects by itself and
\* goes on to send.
SendNotConnectedReconnects ==
    /\ pc = "idle"
    /\ NotConnected
    /\ nsock < MaxSockets
    /\ nsock' = nsock + 1
    /\ _client_socket' = nsock + 1
    /\ _is_connected' = TRUE
    /\ link' = [FreshLink EXCEPT !.out = REQUEST_LENGTH, !.reqs = 1]
    /\ request' = 1
    /\ response_bytes' = NoBytes
    /\ recv_elapsed' = 0
    /\ blocked' = 0
    /\ pc' = "loop"
    /\ ret' = NoReturn
    /\ prev' = ret
    /\ UNCHANGED <<wvars, fvars, cvars, pvars, hvars>>

SendNotConnected ==
    /\ pc = "idle"
    /\ NotConnected
    /\ ret' = Returned("socket_send_receive", FALSE, NoBytes, "not_connected")
    /\ prev' = ret
    /\ UNCHANGED <<_is_connected, _client_socket, nsock, link, pc, request,
                   response_bytes, recv_elapsed, blocked>>
    /\ UNCHANGED <<wvars, fvars, cvars, pvars, hvars>>

\* Line 216 returns None: the whole request is on the wire; lines 229-232.
SendOk ==
    /\ pc = "idle"
    /\ ~NotConnected
    /\ link.out < REQUEST_LENGTH * MaxRequests
    /\ link' = [link EXCEPT !.out = @ + REQUEST_LENGTH, !.reqs = @ + 1]
    /\ request' = link.reqs + 1
    /\ response_bytes' = [first |-> link.rd, len |-> 0]
    /\ recv_elapsed' = 0
    /\ blocked' = 0
    /\ pc' = "loop"
    /\ ret' = NoReturn
    /\ prev' = ret
    /\ UNCHANGED <<_is_connected, _client_socket, nsock>>
    /\ UNCHANGED <<wvars, fvars, cvars, pvars, hvars>>

\* Fault variant of OnSocketTimeout: the handler disconnects, as the other
\* handlers do.
OnSocketTimeoutDisconnects(l) ==
    /\ link' = ClosedLink
    /\ _client_socket' = None
    /\ _is_connected' = FALSE

\* What the handler of socket.timeout (lines 266-271) does to the session,
\* l being the connection as the failed operation left it.
OnSocketTimeout(l) ==
    /\ link' = l
    /\ UNCHANGED <<_is_connected, _client_socket>>

\* Line 216 raises socket.timeout: some of the request may be on the wire.
SendTimeout ==
    /\ pc = "idle"
    /\ ~NotConnected
    /\ link.out < REQUEST_LENGTH * MaxRequests
    /\ \E k \in PartialWrites : OnSocketTimeout([link EXCEPT !.out = @ + k])
    /\ ret' = Returned("socket_send_receive", FALSE, NoBytes, "send_timeout")
    /\ prev' = ret
    /\ UNCHANGED <<nsock, pc, request, response_bytes, recv_elapsed, blocked>>
    /\ UNCHANGED <<wvars, fvars, cvars, pvars, hvars>>

\* Line 216 raises socket.error: lines 272-276.
SendError ==
    /\ pc = "idle"
    /\ ~NotConnected
    /\ \E e \in CloseErrors : socket_disconnect(e)
    /\ ret' = Returned("socket_send_receive", FALSE, NoBytes, "send_error")
    /\ prev' = ret
    /\ UNCHANGED <<nsock, pc, request, response_bytes, recv_elapsed, blocked>>
    /\ UNCHANGED <<wvars, fvars, cvars, pvars, hvars>>

\* Line 235: the manual deadline check of the receive loop.
DeadlinePassed == recv_elapsed > SERVER_TIMEOUT

\* Lines 233-236, then 266-271.
LoopTimeout ==
    /\ pc = "loop"
    /\ response_bytes.len < RESPONSE_LENGTH
    /\ DeadlinePassed
    /\ OnSocketTimeout(link)
    /\ pc' = "idle"
    /\ ret' = Returned("socket_send_receive", FALSE, NoBytes, "recv_timeout")
    /\ UNCHANGED <<nsock, request, response_bytes, recv_elapsed, blocked, prev>>
    /\ UNCHANGED <<wvars, fvars, cvars, pvars, hvars>>

\* Lines 238-239: recv(remaining_bytes) is called and blocks.
RecvCall ==
    /\ pc = "loop"
    /\ response_bytes.len < RESPONSE_LENGTH
    /\ ~DeadlinePassed
    /\ pc' = "recv"
    /\ blocked' = 0
    /\ UNCHANGED <<_is_connected, _client_socket, nsock, link, request,
                   response_bytes, recv_elapsed, ret, prev>>
    /\ UNCHANGED <<wvars, fvars, cvars, pvars, hvars>>

\* Fault variant of Chunk: recv returns all that has arrived, whatever the
\* size asked for.
ChunkAllAvailable(remaining_bytes) == Available

\* The chunk recv(remaining_bytes) returns when data is there.
Chunk(remaining_bytes) == Min(remaining_bytes, Available)

\* Lines 239, 247: recv returns a chunk.
RecvChunk ==
    /\ pc = "recv"
    /\ Available > 0
    /\ LET chunk == Chunk(RESPONSE_LENGTH - response_bytes.len)
       IN /\ link' = [link EXCEPT !.rd = @ + chunk]
          /\ response_bytes' = [response_bytes EXCEPT !.len = @ + chunk]
    /\ pc' = "loop"
    /\ UNCHANGED <<_is_connected, _client_socket, nsock, request, recv_elapsed,
                   blocked, ret, prev>>
    /\ UNCHANGED <<wvars, fvars, cvars, pvars, hvars>>

\* Fault variant of RecvClosed: the zero-length read is reported without
\* a disconnect.
RecvClosedStaysConnected ==
    /\ pc = "recv"
    /\ Available = 0
    /\ link.peer_closed
    /\ pc' = "idle"
    /\ ret' = Returned("socket_send_receive", FALSE, NoBytes, "closed_by_server")
    /\ UNCHANGED <<_is_connected, _client_socket, link, nsock, request,
                   response_bytes, recv_elapsed, blocked, prev>>
    /\ UNCHANGED <<wvars, fvars, cvars, pvars, hvars>>

\* Lines 240-246: recv returns b"", the peer has closed.
RecvClosed ==
    /\ pc = "recv"
    /\ Available = 0
    /\ link.peer_closed
    /\ \E e \in CloseErrors : socket_disconnect(e)
    /\ pc' = "idle"
    /\ ret' = Returned("socket_send_receive", FALSE, NoBytes, "closed_by_server")
    /\ UNCHANGED <<nsock, request, response_bytes, recv_elapsed, blocked, prev>>
    /\ UNCHANGED <<wvars, fvars, cvars, pvars, hvars>>

\* Line 239 raises socket.timeout after SERVER_TIMEOUT without data: 266-271.
RecvTimeout ==
    /\ pc = "recv"
    /\ Available = 0
    /\ ~link.peer_closed
    /\ blocked >= SERVER_TIMEOUT
    /\ OnSocketTimeout(link)
    /\ pc' = "idle"
    /\ ret' = Returned("socket_send_receive", FALSE, NoBytes, "recv_timeout")
    /\ UNCHANGED <<nsock, request, response_bytes, recv_elapsed, blocked, prev>>
    /\ UNCHANGED <<wvars, fvars, cvars, pvars, hvars>>

\* Line 239 raises socket.error (connection reset): lines 272-276.
RecvError ==
    /\ pc = "recv"
    /\ \E e \in CloseErrors : socket_disconnect(e)
    /\ pc' = "idle"
    /\ ret' = Returned("socket_send_receive", FALSE, NoBytes, "recv_error")
    /\ UNCHANGED <<nsock, request, response_bytes, recv_elapsed, blocked, prev>>
    /\ UNCHANGED <<wvars, fvars, cvars, pvars, hvars>>

\* Lines 233, 255-264: the loop ends with the bytes accumulated.
LoopExit ==
    /\ pc = "loop"
    /\ response_bytes.len >= RESPONSE_LENGTH
    /\ ret' = IF response_bytes.len # RESPONSE_LENGTH
              THEN Returned("socket_send_receive", FALSE, NoBytes, "wrong_length")
              ELSE Returned("socket_send_receive", TRUE, response_bytes, "none")
    /\ pc' = "idle"
    /\ UNCHANGED <<_is_connected, _client_socket, nsock, link, request,
                   response_bytes, recv_elapsed, blocked, prev>>
    /\ UNCHANGED <<wvars, fvars, cvars, pvars, hvars>>

socket_send_receive ==
    \/ SendNotConnected
    \/ SendOk
    \/ SendTimeout
    \/ SendError
    \/ LoopTimeout
    \/ RecvCall
    \/ RecvChunk
    \/ RecvClosed
    \/ RecvTimeout
    \/ RecvError
    \/ LoopExit

\* ------------------------------------------------- the clock and the server

\* A clock tick while recv is blocked with nothing to return.
Tick ==
    /\ pc = "recv"
    /\ Available = 0
    /\ ~link.peer_closed
    /\ blocked < SERVER_TIMEOUT
    /\ blocked' = blocked + 1
    /\ recv_elapsed' = recv_elapsed + 1
    /\ UNCHANGED <<_is_connected, _client_socket, nsock, link, pc, request,
                   response_bytes, ret, prev>>
    /\ UNCHANGED <<wvars, fvars, cvars, pvars, hvars>>

\* The server writes the next segment of its reply to a whole request.
ServerWrite ==
    /\ link.open
    /\ ~link.peer_closed
    /\ link.srv < RESPONSE_LENGTH * link.reqs
    /\ link' = [link EXCEPT
                  !.srv = @ + Min(Segment, RESPONSE_LENGTH - (@ % RESPONSE_LENGTH))]
    /\ UNCHANGED <<_is_connected, _client_socket, nsock, pc, request,
                   response_bytes, recv_elapsed, blocked, ret, prev>>
    /\ UNCHANGED <<wvars, fvars, cvars, pvars, hvars>>

\* The server closes the stream.
ServerClose ==
    /\ link.open
    /\ ~link.peer_closed
    /\ link' = [link EXCEPT !.peer_closed = TRUE]
    /\ UNCHANGED <<_is_connected, _client_socket, nsock, pc, request,
                   response_bytes, recv_elapsed, blocked, ret, prev>>
    /\ UNCHANGED <<wvars, fvars, cvars, pvars, hvars>>

\* ------------------------------------------------------------ gri_actions

\* JobStatus
UNKNOWN == 0
INACTIVE == 1
RUNNING == 2
DONE == 3
FAILED == 4

\* ErrorCode
NO_ERROR == 0
JOB_DOES_NOT_EXIST == -12
HEC_INSUFFICIENT_DETECTION == -18
JOB_STILL_RUNNING == 4

\* ------------------------------------------------- bounds of the job poller

\* delay_s is drawn from 0..MaxDelay, timeout_s from 0..MaxTimeout.
MaxDelay == 2
MaxTimeout == 3
\* Status queries one call may start.
MaxPolls == 3
\* A status query takes 0..MaxQueryTime ticks.
MaxQueryTime == 2
\* time.sleep may overshoot, and the log call of line 598 may take, 0..MaxLag ticks.
MaxLag == 1
\* The server's answers carry a status code 0..MaxStatusCode; 5 and up are unrecognized.
MaxStatusCode == 5

\* ---------------------------------------------------------- get_job_status

\* A decoded response with the fields the status query reads.
Response(error_code, data1) ==
    [present |-> TRUE, error_code |-> error_code,
     data_fields |-> [i \in 0..9 |-> IF i = 1 THEN data1 ELSE 0]]

\* The decoded responses a server may send to GET_JOB_STATUS.
StatusResponses ==
    {Response(e, s) : e \in {NO_ERROR, JOB_STILL_RUNNING, JOB_DOES_NOT_EXIST},
                      s \in 0..MaxStatusCode}

\* Fault variant of get_job_status: the status is read from data field 0.
get_job_status_from_field0(resp) ==
    IF ~resp.present
    THEN UNKNOWN
    ELSE IF resp.error_code = NO_ERROR
         THEN resp.data_fields[0]
         ELSE UNKNOWN

\* Fault variant of get_job_status: without a response the job counts as
\* INACTIVE.
get_job_status_inactive_unanswered(resp) ==
    IF ~resp.present
    THEN INACTIVE
    ELSE IF resp.error_code = NO_ERROR
         THEN resp.data_fields[1]
         ELSE UNKNOWN

\* Lines 451-470: the status code get_job_status returns for what _send_action returned.
get_job_status(resp) ==
    IF ~resp.present
    THEN UNKNOWN
    ELSE IF resp.error_code = NO_ERROR
         THEN resp.data_fields[1]
         ELSE UNKNOWN

\* _send_action as its caller sees one exchange (lines 165-181): it returns resp,
\* and the session is left as socket_send_receive leaves it.  Without a
\* connection there is no response; with one, a response leaves the session
\* alone, and no response comes with a disconnect (send or receive error,
\* peer closed) or without (timeout, decode failure).
_send_action(resp) ==
    IF NotConnected
    THEN /\ resp = NoResponse
         /\ UNCHANGED <<_is_connected, _client_socket, link>>
    ELSE \/ /\ resp # NoResponse
            /\ UNCHANGED <<_is_connected, _client_socket, link>>
         \/ /\ resp = NoResponse
            /\ UNCHANGED <<_is_connected, _client_socket, link>>
         \/ /\ resp = NoResponse
            /\ \E e \in CloseErrors : socket_disconnect(e)

\* ------------------------------------------------------------ wait_for_job

elapsed_time == now - start_time

\* Line 597, and the log call of line 598.
WaitEntry ==
    /\ wpc = "entry"
    /\ start_time' = now
    /\ \E lag \in 0..MaxLag : now' = now + lag
    /\ wpc' = "top"
    /\ UNCHANGED <<delay_s, timeout_s, wait_time, response, status, nqueries, result>>
    /\ UNCHANGED <<tvars, fvars, cvars, pvars, hvars>>

\* Line 606.
TimedOut == elapsed_time > timeout_s

\* Fault variant of WaitTime: the whole poll interval, whatever time is left.
WaitTimeWholeDelay == delay_s

\* Lines 614-616.
WaitTime == Min(delay_s, Max(0, timeout_s - elapsed_time))

\* Fault variant of TimedOutAfterSleep: the deadline is not checked again
\* after the sleep.
TimedOutAfterSleepUnchecked == FALSE

\* Line 623: the deadline check after the sleep.
TimedOutAfterSleep == elapsed_time >= timeout_s

\* Lines 603-634, up to the call of time.sleep or of get_job_status.
LoopTop ==
    /\ wpc = "top"
    /\ IF TimedOut
       THEN /\ wpc' = "done"
            /\ result' = FALSE
            /\ UNCHANGED wait_time
       ELSE IF WaitTime > 0
            THEN IF elapsed_time > 0
                 THEN /\ wpc' = "sleep"
                      /\ wait_time' = Min(delay_s, WaitTime)
                      /\ UNCHANGED result
                 ELSE IF TimedOutAfterSleep
                      THEN /\ wpc' = "done"
                           /\ result' = FALSE
                           /\ UNCHANGED wait_time
                      ELSE /\ wpc' = "query"
                           /\ UNCHANGED <<wait_time, result>>
            ELSE IF elapsed_time = 0
                 THEN /\ wpc' = "query"
                      /\ UNCHANGED <<wait_time, result>>
                 ELSE /\ wpc' = "done"
                      /\ result' = FALSE
                      /\ UNCHANGED wait_time
    /\ UNCHANGED <<delay_s, timeout_s, now, start_time, response, status, nqueries>>
    /\ UNCHANGED <<tvars, fvars, cvars, pvars, hvars>>

\* Line 620: time.sleep returns after the duration asked for, or later.
Sleep ==
    /\ wpc = "sleep"
    /\ \E lag \in 0..MaxLag : now' = now + wait_time + lag
    /\ wpc' = "after_sleep"
    /\ UNCHANGED <<delay_s, timeout_s, start_time, wait_time, response, status,
                   nqueries, result>>
    /\ UNCHANGED <<tvars, fvars, cvars, pvars, hvars>>

\* Lines 622-627.
AfterSleep ==
    /\ wpc = "after_sleep"
    /\ IF TimedOutAfterSleep
       THEN /\ wpc' = "done"
            /\ result' = FALSE
       ELSE /\ wpc' = "query"
            /\ UNCHANGED result
    /\ UNCHANGED <<delay_s, timeout_s, now, start_time, wait_time, response, status,
                   nqueries>>
    /\ UNCHANGED <<tvars, fvars, cvars, pvars, hvars>>

\* Line 636: one status query, answered with one of resps; it takes time.
Poll(resps) ==
    /\ wpc = "query"
    /\ \E resp \in resps :
          /\ _send_action(resp)
          /\ response' = resp
          /\ status' = get_job_status(resp)
    /\ \E d \in 0..MaxQueryTime : now' = now + d
    /\ nqueries' = nqueries + 1
    /\ wpc' = "status"
    /\ UNCHANGED <<delay_s, timeout_s, start_time, wait_time, result>>
    /\ UNCHANGED <<nsock, pc, request, response_bytes, recv_elapsed, blocked, ret, prev>>
    /\ UNCHANGED <<fvars, cvars, pvars, hvars>>

\* A status query that any answer, or none, may come back to.
StatusQuery ==
    /\ nqueries < MaxPolls
    /\ Poll(StatusResponses \cup {NoResponse})

\* The clock of the scripted run counts tenths of a second.
TicksPerSecond == 10

\* The defaults of wait_for_job (line 579): delay_s = 1.0, timeout_s = 10.0.
DefaultDelay == 1 * TicksPerSecond
DefaultTimeout == 10 * TicksPerSecond

\* A server whose job is INACTIVE, then RUNNING twice, then DONE.
Script == <<INACTIVE, RUNNING, RUNNING, DONE>>

\* A status query that the scripted server answers.
ScriptedQuery ==
    /\ nqueries < Len(Script)
    /\ Poll({Response(NO_ERROR, Script[nqueries + 1])})

\* A status query during which the clock advances.
StatusQueryAdvancing ==
    /\ StatusQuery
    /\ now' > now

\* Fault variant of Ends: UNKNOWN does not end the wait.
EndsUnlessUnknown(st) == st \in {DONE, FAILED}

\* Lines 638-650: the statuses that end the wait, and what it returns then.
Ends(st) == st \in {DONE, FAILED, UNKNOWN}

\* Fault variant of HandleStatus: an unrecognized status is waited on in
\* place, without going back to the checks of the loop.
HandleStatusSpins ==
    /\ wpc = "status"
    /\ IF Ends(status)
       THEN /\ wpc' = "done"
            /\ result' = (status = DONE)
       ELSE IF status \in {INACTIVE, RUNNING}
            THEN IF elapsed_time >= timeout_s
                 THEN /\ wpc' = "done"
                      /\ result' = FALSE
                 ELSE /\ wpc' = "top"
                      /\ UNCHANGED result
            ELSE /\ wpc' = "spin"
                 /\ UNCHANGED result
    /\ UNCHANGED <<delay_s, timeout_s, now, start_time, wait_time, response, status,
                   nqueries>>
    /\ UNCHANGED <<tvars, fvars, cvars, pvars, hvars>>

\* Lines 638-665.
HandleStatus ==
    /\ wpc = "status"
    /\ IF Ends(status)
       THEN /\ wpc' = "done"
            /\ result' = (status = DONE)
       ELSE IF elapsed_time >= timeout_s
            THEN /\ wpc' = "done"
                 /\ result' = FALSE
            ELSE /\ wpc' = "top"
                 /\ UNCHANGED result
    /\ UNCHANGED <<delay_s, timeout_s, now, start_time, wait_time, response, status,
                   nqueries>>
    /\ UNCHANGED <<tvars, fvars, cvars, pvars, hvars>>

wait_for_job ==
    \/ WaitEntry
    \/ LoopTop
    \/ Sleep
    \/ AfterSleep
    \/ StatusQuery
    \/ HandleStatus

\* ------------------------------------------------- the response on the wire

PROTOCOL_VERSION == 1
REQUEST_MAGIC == 4805191           \* int.from_bytes(b"GRI\0", "little")
RESPONSE_MAGIC == REQUEST_MAGIC
QUATERNION_XYZW == 2

STATUS == 1
TRIGGER_JOB_SYNC == 2
TRIGGER_JOB_ASYNC == 3
GET_JOB_STATUS == 4
GET_NEXT_POSE == 5
GET_RELATED_POSE == 6
HEC_INIT == 7
HEC_SET_POSE == 8
HEC_CALIBRATE == 9

NO_POSES_FOUND == 1
NO_RELATED_POSES == 2

\* job_id is packed into two unsigned bytes: values from here on do not fit.
JOB_ID_LIMIT == 65536

\* The largest value the server puts into data field 1.
MaxData == 2

\* The bytes socket_send_receive collected, by the fields from_bytes reads:
\* how many there are, the header, job id, error code and data fields.
Payload(nbytes, magic, proto_ver, msg_len, pose_format, action_code, job_id, error_code, data1) ==
    [nbytes |-> nbytes, magic |-> magic, proto_ver |-> proto_ver,
     msg_len |-> msg_len, pose_format |-> pose_format,
     action_code |-> action_code, job_id |-> job_id, error_code |-> error_code,
     data_fields |-> [i \in 0..9 |-> IF i = 1 THEN data1 ELSE 0]]

NoPayload == Payload(0, 0, 0, 0, 0, 0, 0, 0, 0)

\* The error codes a server answers with here: none, both warnings of the
\* pose queries, and an error.
ErrorCodes == {NO_ERROR, NO_POSES_FOUND, NO_RELATED_POSES, JOB_DOES_NOT_EXIST}

\* Responses with the right magic and declared length: as the protocol has
\* them, or with another version, pose format and an action code out of range.
WellFormed ==
    {Payload(RESPONSE_LENGTH, RESPONSE_MAGIC, h[1], RESPONSE_LENGTH, h[2], h[3], 1, e, d) :
        h \in {<<PROTOCOL_VERSION, QUATERNION_XYZW, STATUS>>,
               <<PROTOCOL_VERSION + 1, QUATERNION_XYZW + 1, 0>>},
        e \in ErrorCodes,
        d \in 0..MaxData}

\* 80 bytes that are no response: another magic, or another declared length.
Malformed ==
    {Payload(RESPONSE_LENGTH, RESPONSE_MAGIC + 1, PROTOCOL_VERSION, RESPONSE_LENGTH,
             QUATERNION_XYZW, STATUS, 1, NO_ERROR, 1),
     Payload(RESPONSE_LENGTH, RESPONSE_MAGIC, PROTOCOL_VERSION, REQUEST_LENGTH,
             QUATERNION_XYZW, STATUS, 1, NO_ERROR, 1)}

\* Fault variant of Decodes: the magic is not looked at.
DecodesAnyMagic(payload) ==
    /\ payload.nbytes = RESPONSE_LENGTH
    /\ payload.msg_len = RESPONSE_LENGTH

\* Fault variant of Decodes: another protocol version is refused.
DecodesOwnVersion(payload) ==
    /\ payload.nbytes = RESPONSE_LENGTH
    /\ payload.magic = RESPONSE_MAGIC
    /\ payload.proto_ver = PROTOCOL_VERSION
    /\ payload.msg_len = RESPONSE_LENGTH

\* ResponseMessage.from_bytes raises no ValueError (lines 165-183): a version
\* or pose format mismatch is logged only.
Decodes(payload) ==
    /\ payload.nbytes = RESPONSE_LENGTH
    /\ payload.magic = RESPONSE_MAGIC
    /\ payload.msg_len = RESPONSE_LENGTH

\* ResponseMessage.from_bytes where it does not raise (lines 191-216).
from_bytes(payload) ==
    [present |-> TRUE,
     action |-> IF payload.action_code \in STATUS..HEC_CALIBRATE
                THEN payload.action_code
                ELSE STATUS,
     job_id |-> payload.job_id,
     error_code |-> payload.error_code,
     data_fields |-> payload.data_fields]

\* ------------------------------------------------------------- one exchange

\* How socket_send_receive ends.
Outcomes ==
    {"not_connected", "send_timeout", "send_error", "recv_timeout",
     "closed_by_server", "recv_error", "received"}

\* What had been read when it ended so.
PayloadsFor(o) ==
    IF o = "received"
    THEN WellFormed \cup Malformed
    ELSE IF o \in {"recv_timeout", "closed_by_server", "recv_error"}
         THEN {NoPayload, [NoPayload EXCEPT !.nbytes = RESPONSE_LENGTH \div 2]}
         ELSE {NoPayload}

\* socket_send_receive as _send_action sees it when it returns an error
\* (lines 203-206, 237-247, 266-281): it has disconnected after a socket error
\* and after the server closed, and not after a timeout.
Transport(o) ==
    /\ o # "received"
    /\ (o = "not_connected") <=> NotConnected
    /\ IF o \in {"send_error", "closed_by_server", "recv_error"}
       THEN \E e \in CloseErrors : socket_disconnect(e)
       ELSE UNCHANGED <<_is_connected, _client_socket, link>>

\* Fault variant of OnValueError: a response that does not decode ends the
\* connection.
OnValueErrorDisconnects == \E e \in CloseErrors : socket_disconnect(e)

\* _send_action, lines 175-179: from_bytes raised ValueError.
OnValueError == UNCHANGED <<_is_connected, _client_socket, link>>

\* Fault variant of OnResponse: a response with a negative error code ends the
\* connection.
OnResponseDisconnectsOnError(resp) ==
    IF resp.error_code < 0
    THEN \E e \in CloseErrors : socket_disconnect(e)
    ELSE UNCHANGED <<_is_connected, _client_socket, link>>

\* _send_action, line 181: the decoded response is returned.
OnResponse(resp) == UNCHANGED <<_is_connected, _client_socket, link>>

\* _send_action from the write on (lines 165-181): the session after an
\* exchange that ended as o with the bytes p read.
Exchange(o, p) ==
    IF o = "received"
    THEN /\ ~NotConnected
         /\ IF Decodes(p) THEN OnResponse(from_bytes(p)) ELSE OnValueError
    ELSE Transport(o)

\* _send_action, lines 165-181: what it returns then.
Returns(o, p) ==
    IF o = "received" /\ Decodes(p) THEN from_bytes(p) ELSE NoResponse

\* ------------------------------------------------- gri_comms, per operation

\* An Optional value is the set of its values: {} is None.
Ok(resp) == resp.present /\ resp.error_code = NO_ERROR

\* Fault variant of get_system_status: readiness is read whatever the error code.
get_system_status_any_code(resp) ==
    [ready |-> resp.present /\ resp.data_fields[1] # 0, response |-> resp]

get_system_status(resp) ==
    IF ~resp.present
    THEN [ready |-> FALSE, response |-> resp]
    ELSE LET ready_flag == resp.data_fields[1] # 0
         IN  IF resp.error_code = NO_ERROR
             THEN [ready |-> ready_flag, response |-> resp]
             ELSE [ready |-> FALSE, response |-> resp]

\* Fault variant of trigger_job_sync: the pose of every response is handed on,
\* whatever its error code.
trigger_job_sync_pose_on_error(resp) ==
    IF ~resp.present
    THEN [success |-> FALSE, has_pose |-> FALSE, remaining_primary |-> {},
          remaining_related |-> {}, response |-> resp]
    ELSE [success |-> resp.error_code = NO_ERROR,
          has_pose |-> TRUE,
          remaining_primary |-> {resp.data_fields[1]},
          remaining_related |-> {resp.data_fields[2]},
          response |-> resp]

\* trigger_job_sync, lines 363-389.
trigger_job_sync(resp) ==
    IF ~resp.present
    THEN [success |-> FALSE, has_pose |-> FALSE, remaining_primary |-> {},
          remaining_related |-> {}, response |-> resp]
    ELSE [success |-> resp.error_code = NO_ERROR,
          has_pose |-> resp.error_code = NO_ERROR,
          remaining_primary |-> {resp.data_fields[1]},
          remaining_related |-> {resp.data_fields[2]},
          response |-> resp]

trigger_job_async(resp) == [success |-> Ok(resp), response |-> resp]

get_next_pose(resp) ==
    IF ~resp.present
    THEN [success |-> FALSE, has_pose |-> FALSE, remaining_primary |-> {},
          remaining_related |-> {}, response |-> resp]
    ELSE [success |-> resp.error_code = NO_ERROR,
          has_pose |-> resp.error_code = NO_ERROR,
          remaining_primary |-> {resp.data_fields[1]},
          remaining_related |-> {resp.data_fields[2]},
          response |-> resp]

get_related_pose(resp) ==
    IF ~resp.present
    THEN [success |-> FALSE, has_pose |-> FALSE, remaining_related |-> {},
          response |-> resp]
    ELSE [success |-> resp.error_code = NO_ERROR,
          has_pose |-> resp.error_code = NO_ERROR,
          remaining_related |-> {resp.data_fields[2]},
          response |-> resp]

hec_init(resp) == [success |-> Ok(resp), response |-> resp]

hec_set_pose(resp) == [success |-> Ok(resp), response |-> resp]

hec_calibrate(resp) == [success |-> Ok(resp), response |-> resp]

\* The request each operation hands to _send_action: id is its job_id or
\* pipeline_id argument, slot its slot_id.
RequestFor(op, id, slot) ==
    LET Request(action, job_id, d1, d2) ==
            [action |-> action, job_id |-> job_id, data_fields |-> <<d1, d2, 0, 0>>]
    IN  CASE op = "get_status"        -> Request(STATUS, 0, 0, 0)
          [] op = "trigger_job_sync"  -> Request(TRIGGER_JOB_SYNC, id, 0, 0)
          [] op = "trigger_job_async" -> Request(TRIGGER_JOB_ASYNC, id, 0, 0)
          [] op = "get_job_status"    -> Request(GET_JOB_STATUS, id, 0, 0)
          [] op = "get_next_pose"     -> Request(GET_NEXT_POSE, id, 0, 0)
          [] op = "get_related_pose"  -> Request(GET_RELATED_POSE, id, 0, 0)
          [] op = "hec_init"          -> Request(HEC_INIT, 0, id, 0)
          [] op = "hec_set_pose"      -> Request(HEC_SET_POSE, 0, id, slot)
          [] op = "hec_calibrate"     -> Request(HEC_CALIBRATE, 0, id, 0)

\* RequestMessage.to_bytes packs the job_id (line 127) without raising.
Encodable(req) == req.job_id \in 0..(JOB_ID_LIMIT - 1)

\* --------------------------------------------------------------- gri_client

\* ERROR_DESCRIPTIONS (gri_actions.py, lines 78-102): a text for each code of
\* ErrorCode, which are the integers from -18 to 4.
ERROR_DESCRIPTIONS ==
    [code \in HEC_INSUFFICIENT_DETECTION..JOB_STILL_RUNNING |->
        CASE code = NO_ERROR                   -> "No error"
          [] code = -1                         -> "Unknown error"
          [] code = -2                         -> "Internal system error"
          [] code = -3                         -> "Cannot reach vision API"
          [] code = -4                         -> "API returned a negative code"
          [] code = -5                         -> "Processing pipeline unavailable"
          [] code = -6                         -> "Malformed request"
          [] code = -7                         -> "Wrong message length"
          [] code = -8                         -> "Unsupported action"
          [] code = -9                         -> "Operation timed out"
          [] code = -10                        -> "Protocol version not supported"
          [] code = -11                        -> "Job does not match protocol version"
          [] code = JOB_DOES_NOT_EXIST         -> "Invalid job ID"
          [] code = -13                        -> "Invalid job configuration"
          [] code = -14                        -> "Invalid calibration configuration"
          [] code = -15                        -> "Calibration initialization failed"
          [] code = -16                        -> "Failed to record calibration pose"
          [] code = -17                        -> "Unable to compute calibration"
          [] code = HEC_INSUFFICIENT_DETECTION -> "Calibration pattern not detected"
          [] code = NO_POSES_FOUND             -> "No primary poses available"
          [] code = NO_RELATED_POSES           -> "No related poses available"
          [] code = 3                          -> "Job configured with no return type"
          [] code = JOB_STILL_RUNNING          -> "Job still running"]

\* describe_error, lines 105-109.
describe_error(code) ==
    IF code \in DOMAIN ERROR_DESCRIPTIONS
    THEN ERROR_DESCRIPTIONS[code]
    ELSE "Unknown error code: " \o ToString(code)

_error_from_response(resp) ==
    IF ~resp.present
    THEN {"No response received"}
    ELSE IF resp.error_code = NO_ERROR
         THEN {}
         ELSE {describe_error(resp.error_code)}

\* ActionReport.success
success(r) == r.response.present /\ r.response.error_code = NO_ERROR

\* Fault variant of exhausted: every call without success counts as exhausted.
exhausted_unless_success(r) == ~success(r)

\* PoseRetrievalResult.exhausted and RelatedPoseResult.exhausted
exhausted(r) ==
    /\ r.response.present
    /\ r.response.error_code = IF r.class = "PoseRetrievalResult"
                               THEN NO_POSES_FOUND
                               ELSE NO_RELATED_POSES

get_status(resp) ==
    LET r == get_system_status(resp)
    IN  [class |-> "StatusResult", response |-> r.response,
         error |-> _error_from_response(r.response),
         ready |-> IF r.response.present THEN r.ready ELSE FALSE]

client_trigger_job_sync(resp) ==
    LET r == trigger_job_sync(resp)
    IN  [class |-> "SyncJobResult", response |-> r.response,
         error |-> _error_from_response(r.response),
         has_pose |-> r.has_pose,
         remaining_primary |-> r.remaining_primary,
         remaining_related |-> r.remaining_related]

client_trigger_job_async(resp) ==
    LET r == trigger_job_async(resp)
    IN  [class |-> "AsyncTriggerResult", response |-> r.response,
         error |-> _error_from_response(r.response),
         acknowledged |-> r.success]

client_get_job_status(resp) ==
    [class |-> "JobStatusResult", response |-> resp,
     error |-> IF resp.present /\ resp.error_code # NO_ERROR
               THEN _error_from_response(resp)
               ELSE {},
     status |-> get_job_status(resp)]

client_get_next_pose(resp) ==
    LET r == get_next_pose(resp)
    IN  [class |-> "PoseRetrievalResult", response |-> r.response,
         error |-> IF ~r.success THEN _error_from_response(r.response) ELSE {},
         has_pose |-> r.has_pose,
         remaining_primary |-> r.remaining_primary,
         remaining_related |-> r.remaining_related]

client_get_related_pose(resp) ==
    LET r == get_related_pose(resp)
    IN  [class |-> "RelatedPoseResult", response |-> r.response,
         error |-> IF ~r.success THEN _error_from_response(r.response) ELSE {},
         has_pose |-> r.has_pose,
         remaining_related |-> r.remaining_related]

client_hec_init(resp) ==
    LET r == hec_init(resp)
    IN  [class |-> "HECResult", response |-> r.response,
         error |-> _error_from_response(r.response), acknowledged |-> r.success]

client_hec_set_pose(resp) ==
    LET r == hec_set_pose(resp)
    IN  [class |-> "HECResult", response |-> r.response,
         error |-> _error_from_response(r.response), acknowledged |-> r.success]

client_hec_calibrate(resp) ==
    LET r == hec_calibrate(resp)
    IN  [class |-> "HECResult", response |-> r.response,
         error |-> _error_from_response(r.response), acknowledged |-> r.success]

\* The result object of operation op for what _send_action returned.
ResultOf(op, resp) ==
    CASE op = "get_status"        -> get_status(resp)
      [] op = "trigger_job_sync"  -> client_trigger_job_sync(resp)
      [] op = "trigger_job_async" -> client_trigger_job_async(resp)
      [] op = "get_job_status"    -> client_get_job_status(resp)
      [] op = "get_next_pose"     -> client_get_next_pose(resp)
      [] op = "get_related_pose"  -> client_get_related_pose(resp)
      [] op = "hec_init"          -> client_hec_init(resp)
      [] op = "hec_set_pose"      -> client_hec_set_pose(resp)
      [] op = "hec_calibrate"     -> client_hec_calibrate(resp)

\* ----------------------------------------------------------- calls, as steps

\* The job and pipeline ids a caller passes: one that fits the job_id field
\* and one that does not.
Ids == {1, JOB_ID_LIMIT}

NoCall == [op |-> "none", id |-> 0, slot |-> 0]

NotSent == [written |-> FALSE, request |-> RequestFor("get_status", 0, 0)]

NothingReceived == [outcome |-> "none", payload |-> NoPayload]

NoReport == [class |-> "none", response |-> NoResponse, error |-> {}]

NoCallYet ==
    /\ call = NoCall
    /\ sent = NotSent
    /\ received = NothingReceived
    /\ report = NoReport
    /\ before = [called |-> FALSE, decode_failed |-> FALSE]

\* The response of the call just made arrived and did not decode.
DecodeFailed == received.outcome = "received" /\ ~Decodes(received.payload)

\* One call of the gri_client function op.  A job_id that to_bytes cannot pack
\* raises OverflowError out of the call before anything is written; otherwise
\* the request is written (wholly, unless the write failed), the exchange
\* ends as o with the bytes p, and the result object is built.
Call(op, id, slot) ==
    LET req == RequestFor(op, id, slot)
    IN  /\ pc = "idle"
        /\ call' = [op |-> op, id |-> id, slot |-> slot]
        /\ before' = [called |-> call.op # "none", decode_failed |-> DecodeFailed]
        /\ IF ~Encodable(req)
           THEN /\ sent' = [written |-> FALSE, request |-> req]
                /\ received' = [outcome |-> "raised", payload |-> NoPayload]
                /\ report' = [class |-> "OverflowError", response |-> NoResponse,
                              error |-> {}]
                /\ UNCHANGED <<_is_connected, _client_socket, link>>
           ELSE \E o \in Outcomes : \E p \in PayloadsFor(o) :
                   /\ Exchange(o, p)
                   /\ sent' = [written |-> o \notin {"not_connected", "send_timeout",
                                                     "send_error"},
                               request |-> req]
                   /\ received' = [outcome |-> o, payload |-> p]
                   /\ report' = ResultOf(op, Returns(o, p))
        /\ UNCHANGED <<nsock, pc, request, response_bytes, recv_elapsed, blocked,
                       ret, prev>>
        /\ UNCHANGED <<wvars, cvars, pvars>>

CallGetStatus == Call("get_status", 0, 0) /\ UNCHANGED hvars

CallTriggerJobSync == \E id \in Ids : Call("trigger_job_sync", id, 0) /\ UNCHANGED hvars

CallTriggerJobAsync == \E id \in Ids : Call("trigger_job_async", id, 0) /\ UNCHANGED hvars

CallGetJobStatus == \E id \in Ids : Call("get_job_status", id, 0) /\ UNCHANGED hvars

CallGetNextPose == \E id \in Ids : Call("get_next_pose", id, 0) /\ UNCHANGED hvars

CallGetRelatedPose == \E id \in Ids : Call("get_related_pose", id, 0) /\ UNCHANGED hvars

CallHecInit == \E id \in Ids : Call("hec_init", id, 0) /\ UNCHANGED hvars

CallHecSetPose == \E id \in Ids : Call("hec_set_pose", id, 1) /\ UNCHANGED hvars

CallHecCalibrate == \E id \in Ids : Call("hec_calibrate", id, 0) /\ UNCHANGED hvars

\* ------------------------------------------- example_hec.py, the walkthrough

PIPELINE_ID == 0

\* len(calib_poses), lines 58-76: the slots the loop of line 79 goes through.
len_calib_poses == 8

\* The HEC call just made, as the log keeps it: the request handed to
\* _send_action, whether it was written, and the acknowledged of the result.
LoggedCall ==
    [request |-> sent'.request, written |-> sent'.written,
     acknowledged |-> report'.acknowledged]

\* Fault variant of Aborts: only a call without a response ends the
\* walkthrough, a response with an error code does not.
AbortsUnansweredOnly(r) == ~r.response.present

\* Lines 51, 86 and 96: the walkthrough returns False.
Aborts(r) == ~r.acknowledged

\* Lines 46-47: the status is asked for and logged, its result is not looked at.
WalkGetStatus ==
    /\ hpc = "get_status"
    /\ Call("get_status", 0, 0)
    /\ hpc' = "hec_init"
    /\ UNCHANGED <<pipeline_id, slot_id, hec_log, calibration_successful>>

\* Lines 49-53.
WalkHecInit ==
    /\ hpc = "hec_init"
    /\ Call("hec_init", pipeline_id, 0)
    /\ hec_log' = Append(hec_log, LoggedCall)
    /\ IF Aborts(report')
       THEN hpc' = "returned" /\ slot_id' = slot_id
       ELSE hpc' = "hec_set_pose" /\ slot_id' = 1
    /\ UNCHANGED <<pipeline_id, calibration_successful>>

\* Lines 79-91: one turn of the loop over calib_poses.
WalkHecSetPose ==
    /\ hpc = "hec_set_pose"
    /\ Call("hec_set_pose", pipeline_id, slot_id)
    /\ hec_log' = Append(hec_log, LoggedCall)
    /\ IF Aborts(report')
       THEN hpc' = "returned" /\ slot_id' = slot_id
       ELSE IF slot_id < len_calib_poses
            THEN hpc' = hpc /\ slot_id' = slot_id + 1
            ELSE hpc' = "hec_calibrate" /\ slot_id' = slot_id
    /\ UNCHANGED <<pipeline_id, calibration_successful>>

\* Lines 94-104.
WalkHecCalibrate ==
    /\ hpc = "hec_calibrate"
    /\ Call("hec_calibrate", pipeline_id, 0)
    /\ hec_log' = Append(hec_log, LoggedCall)
    /\ hpc' = "returned"
    /\ calibration_successful' = ~Aborts(report')
    /\ UNCHANGED <<pipeline_id, slot_id>>

\* ---------------------------------------------------------- poses, encoded

POSE_SCALE_FACTOR == 1000000

\* Floats are counted in thousandths: this is 1.0.
Unit == POSE_SCALE_FACTOR \div 1000

\* The largest quaternion component a caller passes, in units.
MaxQ == 2

\* a / b for b > 0, rounded to the nearest.
Div(a, b) == IF a >= 0 THEN (2 * a + b) \div (2 * b) ELSE -((b - 2 * a) \div (2 * b))

RECURSIVE SqrtIn(_, _, _)
\* The largest r in lo..hi with r * r <= n.
SqrtIn(n, lo, hi) ==
    IF lo = hi
    THEN lo
    ELSE LET mid == (lo + hi + 1) \div 2
         IN  IF mid * mid <= n THEN SqrtIn(n, mid, hi) ELSE SqrtIn(n, lo, mid - 1)

\* math.sqrt, to the nearest thousandth of the unit the squares are in.
Sqrt(n) ==
    LET r == SqrtIn(n, 0, 2 * MaxQ * Unit + 1)
    IN  IF n - r * r > r THEN r + 1 ELSE r

\* Pose (gri_protocol.py, lines 44-54), and Pose() with its defaults.
Pose(x, y, z, q1, q2, q3, q4) ==
    [x |-> x, y |-> y, z |-> z, q1 |-> q1, q2 |-> q2, q3 |-> q3, q4 |-> q4]

DefaultPose == Pose(0, 0, 0, 0, 0, 0, Unit)

\* Fault variant of normalize: a zero quaternion is left as it is.
normalize_keeps_zero(p) ==
    LET magnitude == Sqrt(p.q1 * p.q1 + p.q2 * p.q2 + p.q3 * p.q3 + p.q4 * p.q4)
    IN  IF magnitude <= 0
        THEN p
        ELSE [p EXCEPT !.q1 = Div(@ * Unit, magnitude),
                       !.q2 = Div(@ * Unit, magnitude),
                       !.q3 = Div(@ * Unit, magnitude),
                       !.q4 = Div(@ * Unit, magnitude)]

\* Pose.normalize, lines 56-67: the pose it leaves in place of p.
normalize(p) ==
    LET magnitude == Sqrt(p.q1 * p.q1 + p.q2 * p.q2 + p.q3 * p.q3 + p.q4 * p.q4)
    IN  IF magnitude <= 0
        THEN [p EXCEPT !.q1 = 0, !.q2 = 0, !.q3 = 0, !.q4 = Unit]
        ELSE [p EXCEPT !.q1 = Div(@ * Unit, magnitude),
                       !.q2 = Div(@ * Unit, magnitude),
                       !.q3 = Div(@ * Unit, magnitude),
                       !.q4 = Div(@ * Unit, magnitude)]

\* float_to_scaled, lines 32-35: int(round(value * 1e6)); a count of
\* thousandths times a million is whole, so nothing is rounded.
float_to_scaled(value) == value * (POSE_SCALE_FACTOR \div Unit)

\* Pose.to_scaled_tuple, lines 71-81, of a pose already normalized.
Scaled(p) ==
    <<float_to_scaled(p.x), float_to_scaled(p.y), float_to_scaled(p.z),
      float_to_scaled(p.q1), float_to_scaled(p.q2), float_to_scaled(p.q3),
      float_to_scaled(p.q4)>>

\* The poses a caller builds: at the origin or at the placeholder position of
\* get_current_robot_pose, with any quaternion, unit or not.
QValues == {-Unit, 0} \cup {k * Unit : k \in 1..MaxQ}

PoseInputs ==
    {Pose(xyz[1], xyz[2], xyz[3], q1, q2, q3, q4) :
        xyz \in {<<0, 0, 0>>, <<100 * Unit, 50 * Unit, 200 * Unit>>},
        q1 \in QValues, q2 \in QValues, q3 \in QValues, q4 \in QValues}

\* perform_example_hand_eye_calibration has not been called.
NoWalkthrough ==
    /\ hpc = "idle"
    /\ pipeline_id = 0
    /\ slot_id = 0
    /\ hec_log = <<>>
    /\ calibration_successful = FALSE

NothingApplied ==
    /\ applied = "none"
    /\ input = 0
    /\ output = 0

NothingEncoded ==
    /\ objects = [o \in {"caller", "copy"} |-> DefaultPose]
    /\ original = DefaultPose
    /\ holder = "caller"
    /\ packed = Scaled(DefaultPose)
    /\ encoded = "none"

\* RequestMessage.to_bytes, lines 129-133, on a request whose pose is the
\* object obj: to_scaled_tuple normalizes that object and scales it.
to_bytes(obj) ==
    /\ objects' = [objects EXCEPT ![obj] = normalize(@)]
    /\ packed' = Scaled(normalize(objects[obj]))
    /\ holder' = obj

\* RequestMessage(action, job_id, pose=p).to_bytes(), p being the caller's pose.
CallToBytes ==
    /\ to_bytes("caller")
    /\ encoded' = "to_bytes"
    /\ UNCHANGED original
    /\ UNCHANGED <<tvars, wvars, fvars, pvars, hvars>>

\* _copy_pose, lines 45-48: the object "copy" gets the fields of obj.
_copy_pose(obj) == [objects EXCEPT !["copy"] = objects[obj]]

\* _send_action(action, job_id, pose=p), lines 157-164: the request is built
\* on a copy of p and packed.
CallSendAction ==
    /\ objects' = [_copy_pose("caller") EXCEPT !["copy"] = normalize(@)]
    /\ packed' = Scaled(normalize(objects["caller"]))
    /\ holder' = "copy"
    /\ encoded' = "_send_action"
    /\ UNCHANGED original
    /\ UNCHANGED <<tvars, wvars, fvars, pvars, hvars>>

\* -------------------------------------------------------- requests, as bytes

\* The largest value struct.pack takes for the format "i".
INT32_MAX == 2147483647

\* A Python int that may not fit 32 bits is kept as hi * Half + lo, with lo in
\* 0..Half-1: two digits to the base 2^16.
Half == 65536

WideOf(n) == [hi |-> n \div Half, lo |-> n % Half]

\* float_to_scaled, lines 32-35, for a value whose product with the scale
\* factor may exceed 32 bits: the same integer, as two digits.
float_to_scaled_wide(value) ==
    LET k == POSE_SCALE_FACTOR \div Unit
        low == (value % Half) * k
    IN  [hi |-> (value \div Half) * k + low \div Half, lo |-> low % Half]

\* struct.pack with the format "i" raises struct.error unless this holds.
FitsInt32(w) == w.hi \in -(Half \div 2)..(Half \div 2 - 1)

\* The four bytes of the low 32 bits of w, little-endian, two's complement:
\* what struct.pack("<i") gives for a w that fits.
PackInt32(w) ==
    LET h == w.hi % Half
    IN  <<w.lo % 256, w.lo \div 256, h % 256, h \div 256>>

\* Fault variant of PackUInt16: the high byte first.
PackUInt16BigEndian(j) == <<j \div 256, j % 256>>

\* job_id.to_bytes(2, byteorder="little", signed=False), line 127, for a
\* job_id it does not raise on.
PackUInt16(j) == <<j % 256, j \div 256>>

\* The seven pose integers of to_scaled_tuple (lines 69-81), as wide integers.
ScaledWide(p) ==
    LET n == normalize(p)
    IN  <<float_to_scaled_wide(n.x), float_to_scaled_wide(n.y),
          float_to_scaled_wide(n.z), float_to_scaled_wide(n.q1),
          float_to_scaled_wide(n.q2), float_to_scaled_wide(n.q3),
          float_to_scaled_wide(n.q4)>>

\* The bytes of a tuple of wide integers, each packed with "<i".
PackWords(ws) ==
    LET RECURSIVE Pack(_)
        Pack(i) == IF i > Len(ws) THEN <<>> ELSE PackInt32(ws[i]) \o Pack(i + 1)
    IN  Pack(1)

\* A RequestMessage: pose is looked at only if has_pose (it is None otherwise);
\* data_fields is a tuple of wide integers.
RequestMessage(action, job_id, has_pose, pose, data_fields) ==
    [action |-> action, job_id |-> job_id, has_pose |-> has_pose, pose |-> pose,
     data_fields |-> data_fields]

\* A tuple of data fields, from integers of 32 bits.
Fields(ns) == [i \in 1..Len(ns) |-> WideOf(ns[i])]

\* Fault variant of RequestMessage_to_bytes: job_id and the integers are cut
\* to their low bits, and missing data fields are sent as they are.
RequestMessage_to_bytes_masking(req) ==
    [raised |-> "none",
     bytes |-> PackInt32(WideOf(REQUEST_MAGIC))
               \o <<PROTOCOL_VERSION, REQUEST_LENGTH, QUATERNION_XYZW, req.action>>
               \o PackUInt16(req.job_id % JOB_ID_LIMIT)
               \o PackWords(ScaledWide(IF req.has_pose THEN req.pose ELSE DefaultPose))
               \o PackWords(req.data_fields)]

\* RequestMessage.to_bytes, lines 115-148: the bytes it returns, or what it
\* raises: OverflowError from job_id.to_bytes (line 127), struct.error from
\* struct.pack of the pose (lines 131-133) or of the data fields (line 134),
\* which must be four integers of 32 bits.
RequestMessage_to_bytes(req) ==
    LET header == PackInt32(WideOf(REQUEST_MAGIC))
                  \o <<PROTOCOL_VERSION, REQUEST_LENGTH, QUATERNION_XYZW, req.action>>
        pose == IF req.has_pose THEN req.pose ELSE DefaultPose
        pose_values == ScaledWide(pose)
        data == req.data_fields
    IN  IF req.job_id \notin 0..(JOB_ID_LIMIT - 1)
        THEN [raised |-> "OverflowError", bytes |-> <<>>]
        ELSE IF \E i \in 1..7 : ~FitsInt32(pose_values[i])
             THEN [raised |-> "struct.error", bytes |-> <<>>]
             ELSE IF Len(data) # 4 \/ \E i \in 1..Len(data) : ~FitsInt32(data[i])
                  THEN [raised |-> "struct.error", bytes |-> <<>>]
                  ELSE [raised |-> "none",
                        bytes |-> header \o PackUInt16(req.job_id)
                                  \o PackWords(pose_values) \o PackWords(data)]

\* The largest count of thousandths whose scaled value fits 32 bits.
Edge == INT32_MAX \div (POSE_SCALE_FACTOR \div Unit)

\* The requests a caller builds: every action; job ids at and beyond both
\* ends of the field; no pose, or a pose with positions inside, at and beyond
\* the range and with a zero, unit or longer quaternion; some data fields.
EncodePoses ==
    {Pose(xyz[1], xyz[2], xyz[3], q[1], q[2], q[3], q[4]) :
        xyz \in {<<0, 0, 0>>, <<100 * Unit, 50 * Unit, 200 * Unit>>,
                 <<Edge, 0, 0>>, <<Edge + 1, 0, 0>>, <<0, -Edge, 0>>,
                 <<0, 0, -Edge - 1>>, <<3000 * Unit, 0, 0>>},
        q \in {<<0, 0, 0, 0>>, <<0, 0, 0, Unit>>, <<0, 0, 0, MaxQ * Unit>>,
               <<Unit, Unit, 0, 0>>}}

EncodeInputs ==
    {RequestMessage(a, j, FALSE, DefaultPose, d) :
        a \in STATUS..HEC_CALIBRATE,
        j \in {-1, 0, 1, 258, JOB_ID_LIMIT - 1, JOB_ID_LIMIT},
        d \in {Fields(<<0, 0, 0, 0>>), Fields(<<1, 2, 0, 0>>),
               Fields(<<-1, 0, 0, INT32_MAX>>)}}
    \cup
    {RequestMessage(a, j, TRUE, p, Fields(<<0, 0, 0, 0>>)) :
        a \in STATUS..HEC_CALIBRATE,
        j \in {0, 258, JOB_ID_LIMIT},
        p \in EncodePoses}

\* request.to_bytes() for the request in input.
CallRequestToBytes ==
    /\ applied = "none"
    /\ applied' = "to_bytes"
    /\ output' = RequestMessage_to_bytes(input)
    /\ UNCHANGED input
    /\ UNCHANGED <<tvars, wvars, fvars, cvars, hvars>>

\* 2^31 and -2^31 - 1, the integers next to both ends of the 32 bits.
TooBig == [hi |-> Half \div 2, lo |-> 0]
TooSmall == [hi |-> -(Half \div 2) - 1, lo |-> Half - 1]

\* The arguments _send_action is called with: job ids and data fields
\* inside, at and beyond their ranges, and three, four or five data fields.
SendInputs ==
    {RequestMessage(a, j, FALSE, DefaultPose, d) :
        a \in {STATUS, HEC_SET_POSE},
        j \in {-1, 0, JOB_ID_LIMIT - 1, JOB_ID_LIMIT},
        d \in {Fields(<<0, 0, 0, 0>>), Fields(<<1, 1, 0, 0>>),
               Fields(<<INT32_MAX, -INT32_MAX - 1, 0, 0>>),
               Fields(<<0, 0, 0>>), Fields(<<0, 0, 0, 0, 0>>),
               <<TooBig, WideOf(0), WideOf(0), WideOf(0)>>,
               <<WideOf(1), WideOf(0), WideOf(0), TooSmall>>}}

\* _send_action(action, job_id, pose, data_fields), lines 154-181, with the
\* arguments in input: ValueError unless there are four data fields (line
\* 154), what to_bytes raises (line 164), or the exchange, which ends as o
\* with the bytes p.
CallSendActionBytes ==
    /\ applied = "none"
    /\ pc = "idle"
    /\ applied' = "_send_action"
    /\ IF Len(input.data_fields) # 4
       THEN /\ output' = [raised |-> "ValueError", written |-> FALSE,
                          outcome |-> "none", response |-> NoResponse]
            /\ UNCHANGED <<_is_connected, _client_socket, link>>
       ELSE LET request_bytes == RequestMessage_to_bytes(input)
            IN  IF request_bytes.raised # "none"
                THEN /\ output' = [raised |-> request_bytes.raised, written |-> FALSE,
                                   outcome |-> "none", response |-> NoResponse]
                     /\ UNCHANGED <<_is_connected, _client_socket, link>>
                ELSE \E o \in Outcomes : \E p \in PayloadsFor(o) :
                        /\ Exchange(o, p)
                        /\ output' = [raised |-> "none",
                                      written |-> o \notin {"not_connected", "send_timeout",
                                                            "send_error"},
                                      outcome |-> o,
                                      response |-> Returns(o, p)]
    /\ UNCHANGED input
    /\ UNCHANGED <<nsock, pc, request, response_bytes, recv_elapsed, blocked, ret, prev>>
    /\ UNCHANGED <<wvars, fvars, cvars, hvars>>

\* ------------------------------------------------------- responses, as bytes
\* Bytes are counted from 1: payload[8:10] of the source is payload[9..10].

\* int.from_bytes(payload[at-1:at+1], byteorder="little", signed=False)
UnpackUInt16(payload, at) == payload[at] + 256 * payload[at + 1]

\* int.from_bytes(payload[at-1:at+1], byteorder="little", signed=True)
UnpackInt16(payload, at) ==
    LET u == UnpackUInt16(payload, at)
    IN  IF u >= Half \div 2 THEN u - Half ELSE u

\* struct.unpack("<i") of the four bytes from at.
UnpackInt32(payload, at) == UnpackInt16(payload, at + 2) * Half + UnpackUInt16(payload, at)

\* struct.unpack("<I") of the four bytes from at, for a value below 2^31.
UnpackUInt32(payload, at) == UnpackUInt16(payload, at + 2) * Half + UnpackUInt16(payload, at)

\* Fault variant of Unpack: the error code is read as unsigned.
UnpackErrorCodeUnsigned(payload) ==
    [nbytes |-> Len(payload),
     magic |-> UnpackUInt32(payload, 1),
     proto_ver |-> payload[5],
     msg_len |-> payload[6],
     pose_format |-> payload[7],
     action_code |-> payload[8],
     job_id |-> UnpackUInt16(payload, 9),
     error_code |-> UnpackUInt16(payload, 11),
     pose_values |-> [i \in 1..7 |-> UnpackInt32(payload, 9 + 4 * i)],
     data_fields |-> [i \in 0..9 |-> UnpackInt32(payload, 41 + 4 * i)]]

\* The fields from_bytes reads from 80 bytes (lines 170-199).
Unpack(payload) ==
    [nbytes |-> Len(payload),
     magic |-> UnpackUInt32(payload, 1),
     proto_ver |-> payload[5],
     msg_len |-> payload[6],
     pose_format |-> payload[7],
     action_code |-> payload[8],
     job_id |-> UnpackUInt16(payload, 9),
     error_code |-> UnpackInt16(payload, 11),
     pose_values |-> [i \in 1..7 |-> UnpackInt32(payload, 9 + 4 * i)],
     data_fields |-> [i \in 0..9 |-> UnpackInt32(payload, 41 + 4 * i)]]

\* ResponseMessage.from_bytes(payload), lines 162-216, as _send_action calls
\* it (gri_comms.py, lines 173-181): what it raises, and what _send_action
\* returns, None after a ValueError.  The pose is kept as its seven integers.
ResponseMessage_from_bytes(payload) ==
    IF Len(payload) # RESPONSE_LENGTH
    THEN [raised |-> "ValueError", response |-> NoResponse]
    ELSE LET fields == Unpack(payload)
         IN  IF ~Decodes(fields)
             THEN [raised |-> "ValueError", response |-> NoResponse]
             ELSE [raised |-> "none",
                   response |-> from_bytes(fields) @@ [pose |-> fields.pose_values]]

\* The 80 bytes a server sends for these fields, data field 1 being data1.
ResponseBytes(magic, proto_ver, msg_len, pose_format, action_code, job_id, error_code, pose_values, data1) ==
    PackInt32(WideOf(magic))
    \o <<proto_ver, msg_len, pose_format, action_code>>
    \o PackUInt16(job_id)
    \o PackUInt16(error_code % Half)
    \o PackWords([i \in 1..7 |-> WideOf(pose_values[i])])
    \o PackWords([i \in 1..10 |-> WideOf(IF i = 2 THEN data1 ELSE 0)])

\* The operations of gri_client that look at a response.
DecodeOps ==
    {"get_status", "trigger_job_sync", "trigger_job_async", "get_job_status",
     "get_next_pose", "get_related_pose", "hec_init", "hec_set_pose", "hec_calibrate"}

\* What a server may send: the right or another magic and declared length;
\* the protocol's or another version and pose format; known and unknown
\* action codes; job ids up to the largest; known and unknown error codes up
\* to both ends of 16 bits; two poses; data that is zero or negative; and the
\* first 79 bytes of a response.
DecodeInputs ==
    LET whole == {ResponseBytes(m, h[1], l, h[2], a, j, e, p, d) :
                    m \in {RESPONSE_MAGIC, RESPONSE_MAGIC + 1},
                    l \in {RESPONSE_LENGTH, REQUEST_LENGTH},
                    h \in {<<PROTOCOL_VERSION, QUATERNION_XYZW>>, <<9, 7>>},
                    a \in {STATUS, HEC_CALIBRATE, 0, 77},
                    j \in {0, 258, JOB_ID_LIMIT - 1},
                    e \in {NO_ERROR, NO_POSES_FOUND, NO_RELATED_POSES,
                           HEC_INSUFFICIENT_DETECTION, -99, 32767, -32768},
                    p \in {<<0, 0, 0, 0, 0, 0, POSE_SCALE_FACTOR>>,
                           <<100000000, -50000000, INT32_MAX, -1, 0, 0, -INT32_MAX - 1>>},
                    d \in {0, -1}}
    IN  whole \cup {SubSeq(b, 1, RESPONSE_LENGTH - 1) : b \in {w \in whole : w[9] = 0 /\ w[41] = 0}}

\* The payload in input is decoded and handed to each operation's caller.
CallFromBytes ==
    /\ applied = "none"
    /\ applied' = "from_bytes"
    /\ LET decoded == ResponseMessage_from_bytes(input)
       IN  output' = [raised |-> decoded.raised,
                      response |-> decoded.response,
                      result |-> [op \in DecodeOps |-> ResultOf(op, decoded.response)]]
    /\ UNCHANGED input
    /\ UNCHANGED <<tvars, wvars, fvars, cvars, hvars>>

\* ------------------------------------------------------ scaling, there and back
\* For the rounding of float_to_scaled a float is kept finer than the
\* thousandths above: as (micro + tenth / Tenths) / POSE_SCALE_FACTOR, micro an
\* integer and tenth in 0..Tenths-1.
Tenths == 10

Float(micro, tenth) == [micro |-> micro, tenth |-> tenth]

\* Fault variant of float_to_scaled_round: the factor is a tenth of
\* POSE_SCALE_FACTOR, and the fraction is dropped.
float_to_scaled_by_tenth(value) == value.micro \div Tenths

\* float_to_scaled, lines 32-35: int(round(value * POSE_SCALE_FACTOR)); round
\* goes to the nearest integer, and to the even one from half way.
float_to_scaled_round(value) ==
    CASE 2 * value.tenth < Tenths -> value.micro
      [] 2 * value.tenth > Tenths -> value.micro + 1
      [] OTHER -> IF value.micro % 2 = 0 THEN value.micro ELSE value.micro + 1

\* scaled_to_float, lines 38-41: float(value) / POSE_SCALE_FACTOR.
scaled_to_float(value) == Float(value, 0)

\* |a - b| is at most tol tenths of 1 / POSE_SCALE_FACTOR; values that far
\* apart in micro are further apart than that.
Within(a, b, tol) ==
    LET dm == a.micro - b.micro
        d == dm * Tenths + (a.tenth - b.tenth)
    IN  /\ dm \in -tol..tol
        /\ d \in -tol..tol

\* The values scaled: around zero, around one, in between and at both ends of
\* what fits 32 bits, each with every tenth.
ScaleInputs ==
    {Float(m, t) : m \in {-INT32_MAX - 1, -INT32_MAX, -POSE_SCALE_FACTOR - 1, -2, -1, 0, 1, 2,
                          POSE_SCALE_FACTOR - 1, POSE_SCALE_FACTOR, 123456789, INT32_MAX - 1},
                   t \in 0..(Tenths - 1)}
    \cup {Float(INT32_MAX, t) : t \in {t \in 0..(Tenths - 1) : 2 * t < Tenths}}

\* scaled = float_to_scaled(v) for the value v in input.
CallFloatToScaled ==
    /\ applied = "none"
    /\ applied' = "float_to_scaled"
    /\ output' = [scaled |-> float_to_scaled_round(input), value |-> {}]
    /\ UNCHANGED input
    /\ UNCHANGED <<tvars, wvars, fvars, cvars, hvars>>

\* scaled_to_float(scaled)
CallScaledToFloat ==
    /\ applied = "float_to_scaled"
    /\ applied' = "scaled_to_float"
    /\ output' = [output EXCEPT !.value = {scaled_to_float(output.scaled)}]
    /\ UNCHANGED input
    /\ UNCHANGED <<tvars, wvars, fvars, cvars, hvars>>

\* ------------------------------------------------------------ specification

Init ==
    /\ _is_connected = FALSE
    /\ _client_socket = None
    /\ nsock = 0
    /\ link = ClosedLink
    /\ pc = "idle"
    /\ request = 0
    /\ response_bytes = NoBytes
    /\ recv_elapsed = 0
    /\ blocked = 0
    /\ ret = NoReturn
    /\ prev = NoReturn
    /\ wpc = "idle"
    /\ delay_s = 0
    /\ timeout_s = 0
    /\ now = 0
    /\ start_time = 0
    /\ wait_time = 0
    /\ response = NoResponse
    /\ status = NoStatus
    /\ nqueries = 0
    /\ result = FALSE
    /\ NoCallYet
    /\ NothingEncoded
    /\ NoWalkthrough
    /\ NothingApplied

Next ==
    \/ socket_connect
    \/ CallDisconnect
    \/ socket_send_receive
    \/ Tick
    \/ ServerWrite
    \/ ServerClose

vars == <<tvars, wvars, fvars, cvars, pvars, hvars>>

Spec == Init /\ [][Next]_vars

\* wait_for_job called once, with or without a connection, for every delay_s
\* and timeout_s within the bounds.
InitWait ==
    /\ _is_connected \in BOOLEAN
    /\ _client_socket = IF _is_connected THEN 1 ELSE None
    /\ nsock = IF _is_connected THEN 1 ELSE 0
    /\ link = IF _is_connected THEN FreshLink ELSE ClosedLink
    /\ pc = "idle"
    /\ request = 0
    /\ response_bytes = NoBytes
    /\ recv_elapsed = 0
    /\ blocked = 0
    /\ ret = NoReturn
    /\ prev = NoReturn
    /\ wpc = "entry"
    /\ delay_s \in 0..MaxDelay
    /\ timeout_s \in 0..MaxTimeout
    /\ now = 0
    /\ start_time = 0
    /\ wait_time = 0
    /\ response = NoResponse
    /\ status = NoStatus
    /\ nqueries = 0
    /\ result = FALSE
    /\ NoCallYet
    /\ NothingEncoded
    /\ NoWalkthrough
    /\ NothingApplied

NextWait == wait_for_job

SpecWait == InitWait /\ [][NextWait]_vars

\* wait_for_job where the clock advances in every status query, and where
\* every call made returns: time.sleep, get_job_status and the steps between.
NextWaitLive ==
    \/ WaitEntry
    \/ LoopTop
    \/ Sleep
    \/ AfterSleep
    \/ StatusQueryAdvancing
    \/ HandleStatus

SpecWaitLive == InitWait /\ [][NextWaitLive]_vars /\ WF_vars(NextWaitLive)

\* wait_for_job(job_id) with its defaults, connected, against the scripted server.
InitScripted ==
    /\ _is_connected = TRUE
    /\ _client_socket = 1
    /\ nsock = 1
    /\ link = FreshLink
    /\ pc = "idle"
    /\ request = 0
    /\ response_bytes = NoBytes
    /\ recv_elapsed = 0
    /\ blocked = 0
    /\ ret = NoReturn
    /\ prev = NoReturn
    /\ wpc = "entry"
    /\ delay_s = DefaultDelay
    /\ timeout_s = DefaultTimeout
    /\ now = 0
    /\ start_time = 0
    /\ wait_time = 0
    /\ response = NoResponse
    /\ status = NoStatus
    /\ nqueries = 0
    /\ result = FALSE
    /\ NoCallYet
    /\ NothingEncoded
    /\ NoWalkthrough
    /\ NothingApplied

NextScripted ==
    \/ WaitEntry
    \/ LoopTop
    \/ Sleep
    \/ AfterSleep
    \/ ScriptedQuery
    \/ HandleStatus

SpecScripted == InitScripted /\ [][NextScripted]_vars

\* =============================================================== properties

\* Calls of the gri_client functions in any order, on a session that
\* socket_connect has or has not connected.
InitFacade ==
    /\ _is_connected \in BOOLEAN
    /\ _client_socket = IF _is_connected THEN 1 ELSE None
    /\ nsock = IF _is_connected THEN 1 ELSE 0
    /\ link = IF _is_connected THEN FreshLink ELSE ClosedLink
    /\ pc = "idle"
    /\ request = 0
    /\ response_bytes = NoBytes
    /\ recv_elapsed = 0
    /\ blocked = 0
    /\ ret = NoReturn
    /\ prev = NoReturn
    /\ wpc = "idle"
    /\ delay_s = 0
    /\ timeout_s = 0
    /\ now = 0
    /\ start_time = 0
    /\ wait_time = 0
    /\ response = NoResponse
    /\ status = NoStatus
    /\ nqueries = 0
    /\ result = FALSE
    /\ NoCallYet
    /\ NothingEncoded
    /\ NoWalkthrough
    /\ NothingApplied

NextFacade ==
    \/ CallGetStatus
    \/ CallTriggerJobSync
    \/ CallTriggerJobAsync
    \/ CallGetJobStatus
    \/ CallGetNextPose
    \/ CallGetRelatedPose
    \/ CallHecInit
    \/ CallHecSetPose
    \/ CallHecCalibrate

SpecFacade == InitFacade /\ [][NextFacade]_vars

\* perform_example_hand_eye_calibration called once, for the default pipeline
\* or another, on a session that socket_connect has or has not connected.
InitHec ==
    /\ _is_connected \in BOOLEAN
    /\ _client_socket = IF _is_connected THEN 1 ELSE None
    /\ nsock = IF _is_connected THEN 1 ELSE 0
    /\ link = IF _is_connected THEN FreshLink ELSE ClosedLink
    /\ pc = "idle"
    /\ request = 0
    /\ response_bytes = NoBytes
    /\ recv_elapsed = 0
    /\ blocked = 0
    /\ ret = NoReturn
    /\ prev = NoReturn
    /\ wpc = "idle"
    /\ delay_s = 0
    /\ timeout_s = 0
    /\ now = 0
    /\ start_time = 0
    /\ wait_time = 0
    /\ response = NoResponse
    /\ status = NoStatus
    /\ nqueries = 0
    /\ result = FALSE
    /\ NoCallYet
    /\ NothingEncoded
    /\ NothingApplied
    /\ hpc = "get_status"
    /\ pipeline_id \in Ids \cup {PIPELINE_ID}
    /\ slot_id = 0
    /\ hec_log = <<>>
    /\ calibration_successful = FALSE

NextHec ==
    \/ WalkGetStatus
    \/ WalkHecInit
    \/ WalkHecSetPose
    \/ WalkHecCalibrate

SpecHec == InitHec /\ [][NextHec]_vars

\* A caller that builds a pose and has it encoded, directly or through
\* _send_action, any number of times.
InitCodec ==
    /\ _is_connected = FALSE
    /\ _client_socket = None
    /\ nsock = 0
    /\ link = ClosedLink
    /\ pc = "idle"
    /\ request = 0
    /\ response_bytes = NoBytes
    /\ recv_elapsed = 0
    /\ blocked = 0
    /\ ret = NoReturn
    /\ prev = NoReturn
    /\ wpc = "idle"
    /\ delay_s = 0
    /\ timeout_s = 0
    /\ now = 0
    /\ start_time = 0
    /\ wait_time = 0
    /\ response = NoResponse
    /\ status = NoStatus
    /\ nqueries = 0
    /\ result = FALSE
    /\ NoCallYet
    /\ original \in PoseInputs
    /\ objects = [o \in {"caller", "copy"} |-> IF o = "caller" THEN original ELSE DefaultPose]
    /\ holder = "caller"
    /\ packed = Scaled(DefaultPose)
    /\ encoded = "none"
    /\ NothingApplied
    /\ NoWalkthrough

NextCodec ==
    \/ CallToBytes
    \/ CallSendAction

SpecCodec == InitCodec /\ [][NextCodec]_vars

\* Nothing connected, called or encoded: the state every codec call starts in.
Quiet ==
    /\ _is_connected = FALSE
    /\ _client_socket = None
    /\ nsock = 0
    /\ link = ClosedLink
    /\ pc = "idle"
    /\ request = 0
    /\ response_bytes = NoBytes
    /\ recv_elapsed = 0
    /\ blocked = 0
    /\ ret = NoReturn
    /\ prev = NoReturn
    /\ wpc = "idle"
    /\ delay_s = 0
    /\ timeout_s = 0
    /\ now = 0
    /\ start_time = 0
    /\ wait_time = 0
    /\ response = NoResponse
    /\ status = NoStatus
    /\ nqueries = 0
    /\ result = FALSE
    /\ NoCallYet
    /\ NothingEncoded
    /\ NoWalkthrough

\* A request is built and encoded.
InitEncode ==
    /\ Quiet
    /\ applied = "none"
    /\ input \in EncodeInputs
    /\ output = 0

NextEncode == CallRequestToBytes

SpecEncode == InitEncode /\ [][NextEncode]_vars

\* _send_action called once, with or without a connection.
InitSend ==
    /\ _is_connected \in BOOLEAN
    /\ _client_socket = IF _is_connected THEN 1 ELSE None
    /\ nsock = IF _is_connected THEN 1 ELSE 0
    /\ link = IF _is_connected THEN FreshLink ELSE ClosedLink
    /\ pc = "idle"
    /\ request = 0
    /\ response_bytes = NoBytes
    /\ recv_elapsed = 0
    /\ blocked = 0
    /\ ret = NoReturn
    /\ prev = NoReturn
    /\ wpc = "idle"
    /\ delay_s = 0
    /\ timeout_s = 0
    /\ now = 0
    /\ start_time = 0
    /\ wait_time = 0
    /\ response = NoResponse
    /\ status = NoStatus
    /\ nqueries = 0
    /\ result = FALSE
    /\ NoCallYet
    /\ NothingEncoded
    /\ NoWalkthrough
    /\ applied = "none"
    /\ input \in SendInputs
    /\ output = 0

NextSend == CallSendActionBytes

SpecSend == InitSend /\ [][NextSend]_vars

\* ResponseMessage.from_bytes alone, on one payload.
InitDecode ==
    /\ Quiet
    /\ applied = "none"
    /\ input \in DecodeInputs
    /\ output = 0

NextDecode == CallFromBytes

SpecDecode == InitDecode /\ [][NextDecode]_vars

\* float_to_scaled and scaled_to_float, one after the other on one value.
InitScale ==
    /\ Quiet
    /\ applied = "none"
    /\ input \in ScaleInputs
    /\ output = 0

NextScale ==
    \/ CallFloatToScaled
    \/ CallScaledToFloat

SpecScale == InitScale /\ [][NextScale]_vars

\* ----------------------------------------------------- transport, under Spec

\* C1: the 80 bytes socket_send_receive returns are the server's reply to the
\* request written by that same call, whatever exchanges came before on the
\* connection.
C1_ReplyIsForThisRequest ==
    (ret.fn = "socket_send_receive" /\ ret.ok) => ret.bytes = ReplyTo(request)

\* C2: on an open connection at most one whole request has been written and
\* not yet been fully answered.
C2_AtMostOneOutstanding ==
    link.open => link.reqs - (link.srv \div RESPONSE_LENGTH) <= 1

\* C7: after socket_send_receive has reported a failed write (sendall raised
\* socket.timeout or socket.error), the session is disconnected.
C7_FailedWriteDisconnects ==
    (ret.fn = "socket_send_receive" /\ ret.err \in {"send_timeout", "send_error"})
        => (~_is_connected /\ _client_socket = None)

\* C8: when recv returns zero bytes before 80 bytes are accumulated, the call
\* returns a communication failure without bytes and the session is
\* disconnected.
C8_PeerClosedDisconnects ==
    [][(pc = "recv" /\ response_bytes.len < RESPONSE_LENGTH
            /\ ret'.err = "closed_by_server")
        => /\ pc' = "idle"
           /\ ret'.fn = "socket_send_receive"
           /\ ~ret'.ok
           /\ ret'.bytes = NoBytes
           /\ ~_is_connected'
           /\ _client_socket' = None]_vars

C8_Witness ==
    /\ ret.err = "closed_by_server"
    /\ response_bytes.len > 0
    /\ response_bytes.len < RESPONSE_LENGTH
    /\ ~_is_connected
    /\ _client_socket = None

\* C9: when the receive deadline elapses before 80 bytes are accumulated, the
\* call returns a communication failure and the session is as it was:
\* connected, with the same socket and the same stream.
C9_ReceiveTimeoutKeepsConnection ==
    [][(pc \in {"loop", "recv"} /\ ret'.err = "recv_timeout")
        => /\ response_bytes.len < RESPONSE_LENGTH
           /\ pc' = "idle"
           /\ ~ret'.ok
           /\ ret'.bytes = NoBytes
           /\ _is_connected /\ _is_connected'
           /\ _client_socket # None /\ _client_socket' = _client_socket
           /\ link' = link]_vars

C9_Witness ==
    /\ ret.err = "recv_timeout"
    /\ response_bytes.len > 0
    /\ response_bytes.len < RESPONSE_LENGTH
    /\ recv_elapsed > SERVER_TIMEOUT
    /\ _is_connected
    /\ _client_socket # None

\* C10: while the session is disconnected an exchange fails with the
\* not-connected failure, writes nothing and reads nothing, and only a
\* successful socket_connect connects the session again.
C10_NoAutomaticReconnect ==
    [][/\ (NotConnected /\ ret'.fn # "socket_connect")
            => /\ pc' = "idle"
               /\ link' = link
               /\ ~_is_connected'
               /\ ret'.fn = "socket_send_receive" => ret'.err = "not_connected"
       /\ (~_is_connected /\ _is_connected')
            => (ret'.fn = "socket_connect" /\ ret'.ok)]_vars

C10_Witness ==
    /\ prev.err \in {"send_error", "recv_error", "closed_by_server"}
    /\ ret.fn = "socket_send_receive"
    /\ ret.err = "not_connected"
    /\ ~_is_connected
    /\ link = ClosedLink

\* C30: from the start of the receive phase to its end, the time spent
\* blocked in recv is at most SERVER_TIMEOUT in total, however many chunks
\* the response comes in, and with 80 bytes accumulated recv is not called
\* again.
C30_ReceiveWithinOneTimeout ==
    /\ [](pc \in {"loop", "recv"} => recv_elapsed <= SERVER_TIMEOUT)
    /\ [][(pc = "loop" /\ response_bytes.len = RESPONSE_LENGTH) => pc' # "recv"]_vars

\* ------------------------------------------------ job poller, under SpecWait

\* C3: wait_for_job returns true exactly when a status query returned DONE
\* while the elapsed time had not exceeded timeout_s.
C3_TrueIffDoneBeforeDeadline ==
    wpc = "done" => (result <=> (status = DONE /\ elapsed_time <= timeout_s))

\* C4: a status query that yields FAILED or UNKNOWN makes wait_for_job return
\* false in its next step, with no further query and no further sleep, and
\* nothing happens after the return.
C4_AbortsAtOnce ==
    [][/\ (wpc = "status" /\ status \in {FAILED, UNKNOWN})
            => (wpc' = "done" /\ ~result' /\ nqueries' = nqueries /\ now' = now)
       /\ wpc = "done" => UNCHANGED vars]_vars

C4_Witness ==
    /\ wpc = "done"
    /\ status \in {FAILED, UNKNOWN}
    /\ ~result
    /\ nqueries >= 2
    /\ elapsed_time < timeout_s

\* C5: a status query starts only while the elapsed time has not passed
\* timeout_s, and a deadline found passed before or after a sleep makes the
\* call return false without polling.
C5_NoQueryPastDeadline ==
    [][/\ wpc' = "query" => elapsed_time' <= timeout_s
       /\ (wpc \in {"top", "after_sleep"} /\ elapsed_time > timeout_s)
            => (wpc' = "done" /\ ~result' /\ nqueries' = nqueries)]_vars

C5_Witness ==
    /\ wpc = "done"
    /\ ~result
    /\ timeout_s > MaxLag
    /\ nqueries = 0
    /\ elapsed_time > timeout_s

\* C6: a decoded status response that carries a positive (warning) code is not
\* reported as status UNKNOWN, the status that makes wait_for_job abort.
C6_SoftCodeIsNotUnknown ==
    (wpc = "status" /\ response.present /\ response.error_code > 0)
        => status # UNKNOWN

\* C28: after a status answer that is neither UNKNOWN, DONE nor FAILED,
\* wait_for_job returns only once the elapsed time has reached timeout_s;
\* before that it goes back to the top of its loop, to sleep and ask again.
C28_OtherStatusKeepsWaiting ==
    /\ [](  (wpc = "done" /\ nqueries > 0 /\ status \notin {UNKNOWN, DONE, FAILED})
              => elapsed_time >= timeout_s)
    /\ [][(wpc = "status" /\ status \notin {UNKNOWN, DONE, FAILED}
              /\ elapsed_time < timeout_s)
            => (wpc' = "top" /\ UNCHANGED result)]_vars

\* C29: whenever wait_for_job is about to call time.sleep, the duration is
\* more than zero, at most delay_s and at most what is left of timeout_s.
C29_SleepWithinDelayAndDeadline ==
    wpc = "sleep"
        => /\ wait_time > 0
           /\ wait_time <= delay_s
           /\ wait_time <= timeout_s - elapsed_time

\* A sleep shorter than delay_s, up to the deadline.
C29_Witness ==
    /\ wpc = "sleep"
    /\ wait_time < delay_s
    /\ wait_time = timeout_s - elapsed_time

\* C31: wait_for_job has returned false only after a status query gave
\* FAILED or UNKNOWN, or with the elapsed time at timeout_s or beyond.
C31_FalseOnlyOnFailureOrDeadline ==
    (wpc = "done" /\ ~result)
        => \/ nqueries > 0 /\ status \in {FAILED, UNKNOWN}
           \/ elapsed_time >= timeout_s

\* C32: with timeout_s > 0, wait_for_job has not returned before it has made
\* a status query.
C32_QueriesAtLeastOnce ==
    (wpc = "done" /\ timeout_s > 0) => nqueries >= 1

\* ------------------------------------------ job poller, under SpecWaitLive
\* C33: when the clock advances in every status query and every call
\* returns, wait_for_job returns, whatever the status answers are.
C33_WaitTerminates == <>(wpc = "done")

\* The call has returned at the deadline after answers of RUNNING or of an
\* unrecognized status only.
C33_Witness ==
    /\ wpc = "done"
    /\ ~result
    /\ nqueries >= 2
    /\ status \in {RUNNING, MaxStatusCode}
    /\ elapsed_time >= timeout_s

\* ------------------------------------------- job poller, under SpecScripted
\* C27: with the defaults delay_s = 1.0 and timeout_s = 10.0 and the answers
\* INACTIVE, RUNNING, RUNNING, DONE, wait_for_job returns only true, after
\* four status queries, and no later than four poll intervals plus the time
\* the four queries and the overshoot of the sleeps take.
C27_ScriptedRunReturnsTrue ==
    wpc = "done"
        => /\ result
           /\ nqueries = 4
           /\ status = DONE
           /\ elapsed_time <= 4 * delay_s + 4 * MaxQueryTime + 5 * MaxLag

\* The call has returned true between 3 and 4 s after it started: the first
\* query at once, then three sleeps of one second, each before a query.
C27_Witness ==
    /\ wpc = "done"
    /\ result
    /\ nqueries = 4
    /\ status = DONE
    /\ elapsed_time \in (3 * DefaultDelay)..(4 * DefaultDelay)

\* ---------------------------------------------------------------- session
\* The outcome of a failed socket_connect, as the caller sees it.
ConnectFailed == ret.fn = "socket_connect" /\ ~ret.ok

\* C11: socket_connect called on a connected session returns true and opens
\* no stream: socket, flag, socket count and stream are what they were.
C11_ConnectWhenConnectedIsNoOp ==
    [][(_is_connected /\ socket_connect)
         => /\ ret'.ok
            /\ UNCHANGED <<_is_connected, _client_socket, nsock, link>>]_vars

\* A second socket_connect returned on a session whose only socket is the
\* first call's.
C11_Witness ==
    /\ ret = Returned("socket_connect", TRUE, NoBytes, "none")
    /\ prev = ret
    /\ _is_connected
    /\ _client_socket = 1
    /\ nsock = 1

\* C12: a socket_connect that timed out or was refused has returned false and
\* left the session disconnected with no socket, and the socket_connect that
\* follows is a fresh attempt: it returns true exactly when it has connected a
\* new socket, and false with the session still disconnected.
C12_FailedConnectLeavesDisconnected ==
    /\ [](ConnectFailed => ~_is_connected /\ _client_socket = None /\ ~link.open)
    /\ [][(ConnectFailed /\ socket_connect)
            => IF ret'.ok
               THEN /\ _is_connected'
                    /\ _client_socket' = nsock + 1
                    /\ nsock' = nsock + 1
                    /\ link' = FreshLink
               ELSE /\ ~_is_connected'
                    /\ _client_socket' = None]_vars

\* A socket_connect that timed out, followed by one that connected.
C12_Witness ==
    /\ prev = Returned("socket_connect", FALSE, NoBytes, "timeout")
    /\ ret = Returned("socket_connect", TRUE, NoBytes, "none")
    /\ _is_connected
    /\ _client_socket # None

\* C13: when socket_disconnect has returned, whatever shutdown and close
\* raised, the session is disconnected with no socket; and a socket_disconnect
\* called next changes nothing.
C13_DisconnectClearsAndIsIdempotent ==
    /\ [](ret.fn = "socket_disconnect" => ~_is_connected /\ _client_socket = None)
    /\ [][(ret.fn = "socket_disconnect" /\ CallDisconnect)
            => UNCHANGED <<_is_connected, _client_socket, nsock, link>>]_vars

\* A socket_disconnect in which close raised, and a second socket_disconnect
\* after it.
C13_Witness ==
    /\ prev = Returned("socket_disconnect", FALSE, NoBytes, "close_error")
    /\ ret = Returned("socket_disconnect", FALSE, NoBytes, "none")
    /\ ~_is_connected
    /\ _client_socket = None

\* C34: whenever no exchange is in progress, _is_connected is true exactly
\* when _client_socket is not None.
C34_FlagAndSocketAgree ==
    pc = "idle" => (_is_connected <=> _client_socket # None)

\* The session is connected again, on a second socket, after an exchange
\* that ended in a socket error and disconnected.
C34_Witness ==
    /\ pc = "idle"
    /\ ret.fn = "socket_connect"
    /\ ret.ok
    /\ prev.err = "recv_error"
    /\ _is_connected
    /\ _client_socket = 2

\* ----------------------------------------------- gri_client, under SpecFacade
\* The exchange of the call just made ended without a response: in the
\* transport, or with bytes that did not decode.
NoResponseObtained ==
    /\ received.outcome \in Outcomes
    /\ ~(received.outcome = "received" /\ Decodes(received.payload))

\* The exchange of the call just made ended with a response that decoded.
Responded == received.outcome = "received" /\ Decodes(received.payload)

\* C14: when the 80 bytes read do not decode, the call has no response and the
\* session is still connected, and the call after it is not turned away as
\* not connected: its exchange runs, unless its own request cannot be packed.
C14_DecodeFailureKeepsConnection ==
    /\ [](DecodeFailed => /\ ~report.response.present
                          /\ _is_connected
                          /\ _client_socket # None
                          /\ link.open)
    /\ [][DecodeFailed => /\ received'.outcome # "not_connected"
                          /\ Encodable(sent'.request) => received'.outcome \in Outcomes]_vars

\* A call whose response had a wrong magic or declared length, and after it a
\* call on the same socket that got its response.
C14_Witness ==
    /\ before.decode_failed
    /\ sent.written
    /\ Responded
    /\ report.response.present
    /\ _client_socket = 1

\* C15: a call whose response decoded with an error code other than zero has
\* left socket, flag and stream as they were, connected, and hands the caller
\* the response with that error code.
C15_ErrorCodeNeverDisconnects ==
    [][(Responded' /\ received'.payload.error_code # NO_ERROR)
         => /\ UNCHANGED <<_is_connected, _client_socket, link>>
            /\ _is_connected'
            /\ report'.response.present
            /\ report'.response.error_code = received'.payload.error_code]_vars

\* hec_calibrate answered with a negative code, on a session still connected.
C15_Witness ==
    /\ call.op = "hec_calibrate"
    /\ Responded
    /\ received.payload.error_code < 0
    /\ report.response.error_code = received.payload.error_code
    /\ ~report.acknowledged
    /\ _is_connected

\* C16: a call has a response only if 80 bytes were read, their magic is the
\* request magic and their declared length is 80; the response then has the
\* error code, job id and data fields of those bytes.
C16_OnlyWholeResponses ==
    report.response.present
        => /\ received.outcome = "received"
           /\ received.payload.nbytes = RESPONSE_LENGTH
           /\ received.payload.magic = REQUEST_MAGIC
           /\ received.payload.msg_len = RESPONSE_LENGTH
           /\ report.response.error_code = received.payload.error_code
           /\ report.response.job_id = received.payload.job_id
           /\ report.response.data_fields = received.payload.data_fields

\* 80 bytes with another magic were read, and the call has no response.
C16_Witness ==
    /\ received.outcome = "received"
    /\ received.payload.nbytes = RESPONSE_LENGTH
    /\ received.payload.magic # REQUEST_MAGIC
    /\ ~report.response.present
    /\ call.op = "trigger_job_sync"

\* C17: get_next_pose answered with NO_POSES_FOUND, and get_related_pose
\* answered with NO_RELATED_POSES, give a result with the response, exhausted
\* true and success false; either of them without a response gives a result
\* with no response and exhausted false.
C17_ExhaustedIsNotFailure ==
    /\ (call.op = "get_next_pose" /\ Responded
          /\ received.payload.error_code = NO_POSES_FOUND)
         => report.response.present /\ exhausted(report) /\ ~success(report)
    /\ (call.op = "get_related_pose" /\ Responded
          /\ received.payload.error_code = NO_RELATED_POSES)
         => report.response.present /\ exhausted(report) /\ ~success(report)
    /\ (call.op \in {"get_next_pose", "get_related_pose"} /\ NoResponseObtained)
         => ~report.response.present /\ ~exhausted(report) /\ ~success(report)

\* get_related_pose answered with NO_RELATED_POSES.
C17_Witness ==
    /\ call.op = "get_related_pose"
    /\ report.class = "RelatedPoseResult"
    /\ exhausted(report)
    /\ ~report.has_pose
    /\ report.response.error_code = NO_RELATED_POSES

\* C18: a call whose exchange ended without a response gives a result with no
\* response and an error that is a string, and not the empty one.
C18_NoResponseHasReason ==
    (call.op # "none" /\ NoResponseObtained)
        => /\ ~report.response.present
           /\ report.error # {}
           /\ "" \notin report.error

C20_CallerPoseUnchanged ==
    encoded \in {"to_bytes", "_send_action"} => objects["caller"] = original

\* C26: a pose given with the quaternion (0, 0, 0, 0) is packed with the
\* scaled quaternion (0, 0, 0, 1000000), and with its three positions scaled
\* as they were given.
C26_ZeroQuaternionIsIdentity ==
    (encoded \in {"to_bytes", "_send_action"}
       /\ original.q1 = 0 /\ original.q2 = 0 /\ original.q3 = 0 /\ original.q4 = 0)
        => /\ SubSeq(packed, 4, 7) = <<0, 0, 0, 1000000>>
           /\ SubSeq(packed, 1, 3) = <<original.x * 1000, original.y * 1000, original.z * 1000>>

\* to_bytes has packed the pose at 100, 50, 200 mm given with a zero quaternion.
C26_Witness ==
    /\ encoded = "to_bytes"
    /\ original = Pose(100 * Unit, 50 * Unit, 200 * Unit, 0, 0, 0, 0)
    /\ packed = <<100000000, 50000000, 200000000, 0, 0, 0, 1000000>>


\* ---------------------------------------------------- requests, under SpecEncode
\* The positions of pose p scale to integers of 32 bits.
InRange(p) == \A c \in {p.x, p.y, p.z} : c \in -Edge..Edge

\* C21: a request whose pose has a component that scales beyond 32 bits is
\* encoded without an error, to 54 bytes that hold the low 32 bits of each
\* scaled component.
C21_OverflowWraps ==
    (applied = "to_bytes" /\ input.has_pose /\ ~InRange(input.pose)
       /\ input.job_id \in 0..(JOB_ID_LIMIT - 1))
        => /\ output.raised = "none"
           /\ Len(output.bytes) = REQUEST_LENGTH
           /\ SubSeq(output.bytes, 11, 38) = PackWords(ScaledWide(input.pose))

\* The 28 bytes of the identity pose: zeros, and 1000000 as the last integer.
IdentityPoseBytes == [i \in 1..28 |-> CASE i = 25 -> 64 [] i = 26 -> 66 [] i = 27 -> 15 [] OTHER -> 0]

\* C22: a request with an action 1..9, a job_id in 0..65535 and no pose or a
\* pose in range encodes to 54 bytes: "GRI\0", 1, 54, 2, the action code, the
\* job_id low byte first, 28 bytes of pose and 16 of data; STATUS with job_id 0
\* and no pose has action byte 1 and the identity pose.
C22_RequestIs54Bytes ==
    (applied = "to_bytes"
       /\ input.action \in 1..9
       /\ input.job_id \in 0..65535
       /\ (input.has_pose => InRange(input.pose)))
        => /\ output.raised = "none"
           /\ Len(output.bytes) = 54
           /\ \A i \in 1..54 : output.bytes[i] \in 0..255
           /\ SubSeq(output.bytes, 1, 8) = <<71, 82, 73, 0, 1, 54, 2, input.action>>
           /\ output.bytes[9] + 256 * output.bytes[10] = input.job_id
           /\ (input.action = 1 /\ input.job_id = 0 /\ ~input.has_pose)
                => /\ output.bytes[8] = 1
                   /\ SubSeq(output.bytes, 11, 38) = IdentityPoseBytes

\* HEC_CALIBRATE with job_id 258 and a pose at 100, 50, 200 mm: 54 bytes, the
\* action byte 9, the job_id bytes 2 and 1, and 100000000 as the first integer.
C22_Witness ==
    /\ applied = "to_bytes"
    /\ input.action = HEC_CALIBRATE
    /\ input.job_id = 258
    /\ input.has_pose
    /\ input.pose = Pose(100 * Unit, 50 * Unit, 200 * Unit, 0, 0, 0, Unit)
    /\ Len(output.bytes) = 54
    /\ SubSeq(output.bytes, 8, 14) = <<9, 2, 1, 0, 225, 245, 5>>

\* --------------------------------------------------- _send_action, under SpecSend
\* C36: _send_action called with other than four data fields, with a job_id
\* outside 0..65535 or with a data field outside the signed 32 bits raises;
\* nothing is written and flag, socket and stream stay as they were.
C36_UnencodableRejectedBeforeWrite ==
    [][(applied' = "_send_action" /\ applied = "none"
          /\ \/ Len(input.data_fields) # 4
             \/ input.job_id \notin 0..65535
             \/ \E i \in 1..Len(input.data_fields) :
                   input.data_fields[i].hi \notin -32768..32767)
        => /\ output'.raised \in {"ValueError", "OverflowError", "struct.error"}
           /\ ~output'.written
           /\ output'.outcome = "none"
           /\ UNCHANGED <<_is_connected, _client_socket, link>>]_vars

\* On a connected session _send_action has raised for a data field of 2^31,
\* and the session is still connected.
C36_Witness ==
    /\ applied = "_send_action"
    /\ input.job_id = 0
    /\ input.data_fields[1] = TooBig
    /\ output.raised = "struct.error"
    /\ ~output.written
    /\ _is_connected
    /\ link = FreshLink

\* ---------------------------------------------------- responses, under SpecDecode
\* C23: 80 bytes that begin with "GRI\0" and declare the length 80 decode
\* without an error whatever their version, pose format and action bytes are:
\* job_id, error_code, the seven pose integers and the ten data fields are
\* those whose encodings the bytes hold, and an action byte outside 1..9 is
\* decoded as STATUS.
C23_MismatchesAreNotFatal ==
    (applied = "from_bytes"
       /\ Len(input) = 80
       /\ SubSeq(input, 1, 4) = <<71, 82, 73, 0>>
       /\ input[6] = 80)
        => /\ output.raised = "none"
           /\ output.response.present
           /\ output.response.job_id \in 0..65535
           /\ PackUInt16(output.response.job_id) = SubSeq(input, 9, 10)
           /\ output.response.error_code \in -32768..32767
           /\ PackUInt16(output.response.error_code % 65536) = SubSeq(input, 11, 12)
           /\ PackWords([i \in 1..7 |-> WideOf(output.response.pose[i])]) = SubSeq(input, 13, 40)
           /\ PackWords([i \in 1..10 |-> WideOf(output.response.data_fields[i - 1])])
                = SubSeq(input, 41, 80)
           /\ output.response.action = IF input[8] \in 1..9 THEN input[8] ELSE 1

\* A response of version 9, pose format 7 and action code 77 has been decoded.
C23_Witness ==
    /\ applied = "from_bytes"
    /\ SubSeq(input, 1, 12) = <<71, 82, 73, 0, 9, 80, 7, 77, 255, 255, 238, 255>>
    /\ output.raised = "none"
    /\ output.response.action = STATUS
    /\ output.response.job_id = 65535
    /\ output.response.error_code = -18
    /\ output.response.pose = <<100000000, -50000000, 2147483647, -1, 0, 0, -2147483647 - 1>>
    /\ output.response.data_fields[1] = -1

\* C24: the error code of a decoded response is the signed 16-bit integer of
\* bytes 11 and 12.  For the bytes of -18 it is -18, every operation's result
\* has the error text "Calibration pattern not detected" and no success, and
\* the pose queries' results are not exhausted; for the bytes of -99, 32767
\* and -32768 the error text is "Unknown error code: " and the number.
C24_ErrorCodeSignedAndDescribed ==
    (applied = "from_bytes" /\ output.raised = "none")
        => LET code == output.response.error_code
               Texts(text) == \A op \in DecodeOps : output.result[op].error = {text}
           IN  /\ code \in -32768..32767
               /\ (code - (input[11] + 256 * input[12])) % 65536 = 0
               /\ SubSeq(input, 11, 12) = <<238, 255>>
                    => /\ code = -18
                       /\ Texts("Calibration pattern not detected")
                       /\ \A op \in DecodeOps : ~success(output.result[op])
                       /\ ~exhausted(output.result["get_next_pose"])
                       /\ ~exhausted(output.result["get_related_pose"])
               /\ SubSeq(input, 11, 12) = <<157, 255>> => Texts("Unknown error code: -99")
               /\ SubSeq(input, 11, 12) = <<255, 127>> => Texts("Unknown error code: 32767")
               /\ SubSeq(input, 11, 12) = <<0, 128>> => Texts("Unknown error code: -32768")

\* A response with the error bytes of -18 has been decoded for get_next_pose,
\* which is neither a success nor exhausted.
C24_Witness ==
    /\ applied = "from_bytes"
    /\ output.raised = "none"
    /\ SubSeq(input, 11, 12) = <<238, 255>>
    /\ output.result["get_next_pose"].error = {"Calibration pattern not detected"}
    /\ ~success(output.result["get_next_pose"])
    /\ ~exhausted(output.result["get_next_pose"])

\* ----------------------------------------------------- scaling, under SpecScale
\* C25: a value whose scaled form is within the signed 32 bits comes back
\* from float_to_scaled and then scaled_to_float at most 1e-6 away from
\* itself.
C25_RoundTripWithinOneMillionth ==
    (applied = "scaled_to_float" /\ output.scaled \in (-2147483647 - 1)..2147483647)
        => \A back \in output.value : Within(back, input, Tenths)

\* 2.5e-6 has gone to 2 and come back as 2e-6, half a millionth away.
C25_Witness ==
    /\ applied = "scaled_to_float"
    /\ input = Float(2, 5)
    /\ output.scaled = 2
    /\ output.value = {Float(2, 0)}

\* ------------------------------------------- gri_client, under SpecFacade, again
\* C37: in the result of every call, success and exhausted are not both
\* true; the results of trigger_job_sync, get_next_pose and get_related_pose
\* hold a pose exactly when there is a response with error code 0; and
\* acknowledged, of trigger_job_async and the three HEC calls, is true exactly
\* then too.
C37_ResultFieldsAgree ==
    (call.op # "none" /\ received.outcome # "raised")
        => LET answered_ok == report.response.present /\ report.response.error_code = 0
           IN  /\ success(report) <=> answered_ok
               /\ report.class \in {"PoseRetrievalResult", "RelatedPoseResult"}
                    => ~(success(report) /\ exhausted(report))
               /\ call.op \in {"trigger_job_sync", "get_next_pose", "get_related_pose"}
                    => (report.has_pose <=> answered_ok)
               /\ call.op \in {"trigger_job_async", "hec_init", "hec_set_pose", "hec_calibrate"}
                    => (report.acknowledged <=> answered_ok)

\* trigger_job_sync has been answered with a warning code: no pose, no success.
C37_Witness ==
    /\ call.op = "trigger_job_sync"
    /\ report.response.present
    /\ report.response.error_code = NO_POSES_FOUND
    /\ ~report.has_pose
    /\ ~success(report)

\* C35: a call made without a connection, whose request can be encoded, ends
\* as not connected: nothing is written, nothing is read, flag, socket and
\* stream stay as they were, the result has no response and no success, and
\* the status of get_job_status is UNKNOWN.
C35_NotConnectedFailsEveryOperation ==
    [][(NotConnected /\ call' # NoCall /\ received'.outcome # "raised"
          /\ <<call, sent, received, report, before>>' # <<call, sent, received, report, before>>)
        => /\ received'.outcome = "not_connected"
           /\ received'.payload = NoPayload
           /\ ~sent'.written
           /\ UNCHANGED <<_is_connected, _client_socket, link>>
           /\ ~report'.response.present
           /\ ~success(report')
           /\ call'.op = "get_job_status" => report'.status = UNKNOWN
           /\ call'.op = "get_status" => ~report'.ready
           /\ call'.op \in {"trigger_job_async", "hec_init", "hec_set_pose", "hec_calibrate"}
                => ~report'.acknowledged
           /\ call'.op \in {"trigger_job_sync", "get_next_pose", "get_related_pose"}
                => ~report'.has_pose]_vars

\* get_job_status and hec_calibrate have been called without a connection.
C35_Witness ==
    /\ ~_is_connected
    /\ received.outcome = "not_connected"
    /\ ~sent.written
    /\ \/ call.op = "get_job_status" /\ report.status = UNKNOWN
       \/ call.op = "hec_calibrate" /\ ~report.acknowledged

\* ------------------------------------- example_hec.py, under SpecHec

\* C38: in the hand-eye calibration walkthrough a HEC_CALIBRATE request is
\* written only as the last of len_calib_poses + 2 HEC calls, after HEC_INIT and
\* then HEC_SET_POSE for the slots 1, 2, ..., 8 in that order were written and
\* acknowledged, each with the pipeline id in its first data field; and a HEC
\* call that was not acknowledged is the last one made, the walkthrough having
\* returned.
C38_CalibrateOnlyAfterAllAcknowledged ==
    LET n == Len(hec_log)
        InOrder(k) ==
            /\ hec_log[k].request.data_fields[1] = pipeline_id
            /\ IF k = 1
               THEN hec_log[k].request.action = HEC_INIT
               ELSE /\ hec_log[k].request.action = HEC_SET_POSE
                    /\ hec_log[k].request.data_fields[2] = k - 1
    IN  /\ \A i \in 1..n :
               (hec_log[i].request.action = HEC_CALIBRATE /\ hec_log[i].written) =>
                   /\ i = len_calib_poses + 2
                   /\ hec_log[i].request.data_fields[1] = pipeline_id
                   /\ \A k \in 1..(i - 1) :
                          InOrder(k) /\ hec_log[k].written /\ hec_log[k].acknowledged
        /\ \A i \in 1..n : ~hec_log[i].acknowledged => (i = n /\ hpc = "returned")

\* The walkthrough ran to its end for pipeline 1: HEC_INIT and the eight
\* HEC_SET_POSE acknowledged, then HEC_CALIBRATE written and acknowledged.
C38_Witness ==
    /\ hpc = "returned"
    /\ calibration_successful
    /\ pipeline_id = 1
    /\ Len(hec_log) = len_calib_poses + 2
    /\ hec_log[Len(hec_log)].request.action = HEC_CALIBRATE
    /\ hec_log[Len(hec_log)].written

\* ------------------------------------- the receive loop, under Spec, again

\* C39: during one exchange the receive loop never asks for or consumes more than
\* RESPONSE_LENGTH bytes: the accumulated length never exceeds 80, while the
\* loop runs it only grows and equals what the exchange has taken from the
\* stream, recv is not called again once it is 80, and a successful exchange
\* returns exactly 80 bytes with the stream read up to their end and no further.
C39_ReceiveNeverOverreads ==
    /\ [](response_bytes.len <= RESPONSE_LENGTH)
    /\ [](pc \in {"loop", "recv"} => link.rd = response_bytes.first + response_bytes.len)
    /\ [][(pc \in {"loop", "recv"} /\ pc' \in {"loop", "recv"})
            => /\ response_bytes'.first = response_bytes.first
               /\ response_bytes'.len >= response_bytes.len
               /\ link'.rd - link.rd = response_bytes'.len - response_bytes.len]_vars
    /\ [][(pc = "loop" /\ pc' = "recv") => response_bytes.len < RESPONSE_LENGTH]_vars
    /\ [][(pc = "loop" /\ pc' = "idle" /\ ret'.ok)
            => /\ ret'.bytes.len = RESPONSE_LENGTH
               /\ link'.rd = ret'.bytes.first + RESPONSE_LENGTH]_vars

\* An exchange has returned its 80 bytes while bytes of the next reply were
\* already waiting in the stream: they are still there.
C39_Witness ==
    /\ pc = "idle"
    /\ ret.fn = "socket_send_receive"
    /\ ret.ok
    /\ ret.bytes.len = RESPONSE_LENGTH
    /\ link.rd = ret.bytes.first + RESPONSE_LENGTH
    /\ Available > 0

====
